---- MODULE Spec2Model ----
(***************************************************************************)
(* Model of deepin-translation-utils' zhconv command: the Linguist (.ts)   *)
(* and Gettext (.po) documents of src/i18n_file, the propagation           *)
(* functions translate_ts_content / translate_po_content and the bootstrap *)
(* of a missing target (load_from_file_or_default) of src/subcmd/zhconv.rs *)
(***************************************************************************)
EXTENDS Integers, Sequences, FiniteSets, TLC

VARIABLES
    kind,     \* "ts" (ZhConvFile::Linguist) or "po" (ZhConvFile::Gettext)
    src,      \* the source (reference) document, borrowed immutably
    src0,     \* the source document as it was first loaded
    file,     \* what is stored at the target path: NoFile, Garbage or a document
    tgt,      \* the in-memory target document (NotLoaded before the load)
    pre,      \* the target document before the last operation
    res,      \* the Result of the last operation
    op,       \* the last operation applied
    arg,      \* the language code the last operation was given
    argv,     \* subcmd_zhconv's arguments
    disk,     \* the directory of the source file: path -> content
    disk0,    \* the directory as it was when the command started
    pc,       \* where subcmd_zhconv stands: start, load, convert, done
    target_contents,  \* Vec<(PathBuf, ZhConvFile)> of subcmd_zhconv
    done_count,       \* targets the second loop has converted and saved
    stats,            \* the MessageStats being computed and summed up
    target_pattern,   \* Filter::target_pattern, joined to the project root
    directory,        \* the directory match_target_files scans
    matched_files,    \* what match_target_files returned
    all_files,        \* the translation files scan_all_translation_files found
    candidates,       \* the candidates given to select_best_source_file
    best_file,        \* what select_best_source_file returned
    pattern_candidates,  \* identify_source_files: pattern -> candidates
    source_files,     \* what identify_source_files returned
    name_given,       \* the file name given to find_language_codes_in_filename
    codes_found,    \* what find_language_codes_in_filename returned
    source_given,     \* the path given to generate_translation_expression
    translation_expression,  \* what generate_translation_expression returned
    command,          \* the config-generating command and what it generates
    tree,             \* the project root of that command: path -> content
    tree0,            \* the project root as it was when the command started
    printed,          \* what the command printed of the generated content
    tx_yaml,          \* the TransifexYaml to_tx_config is called on
    github_repository,  \* to_tx_config's github_repository
    lookup_table,     \* to_tx_config's lookup_table
    tx_config         \* what to_tx_config returned

docvars == <<file, tgt, pre, op, arg, src0>>
cmdvars == <<argv, disk, disk0, pc, target_contents, done_count>>
zhvars == <<kind, src, res, docvars, cmdvars>>
statvars == <<stats>>
matchvars == <<target_pattern, directory, matched_files>>
selectvars == <<all_files, candidates, best_file, pattern_candidates, source_files>>
codevars == <<name_given, codes_found, source_given, translation_expression>>
cfgvars == <<command, tree, tree0, printed>>
txvars == <<tx_yaml, github_repository, lookup_table, tx_config>>
extravars == <<codevars, cfgvars, txvars>>
funvars == <<statvars, matchvars, selectvars, extravars>>
vars == <<kind, src, src0, file, tgt, pre, res, op, arg,
          argv, disk, disk0, pc, target_contents, done_count, stats,
          target_pattern, directory, matched_files,
          all_files, candidates, best_file, pattern_candidates, source_files,
          name_given, codes_found, source_given, translation_expression,
          command, tree, tree0, printed,
          tx_yaml, github_repository, lookup_table, tx_config>>

\* ----------------------------------------------------------------- bounds
MaxContexts == 2
MaxMessages == 1
MaxPoMessages == 3
MaxTargets == 2
MaxCmdPoMessages == 2
MaxStatTotal == 4

\* ------------------------------------------------------------ basic values
None == "None"
\* What a path holds: nothing, bytes that do not parse, or a document.
NoFile == [file |-> "missing"]
Garbage == [file |-> "garbage"]
\* No document in memory yet.
NotLoaded == [doc |-> "not loaded"]

\* The variables of the functions that are checked on their own, at rest.
StatsIdle == stats = None

MatchIdle ==
    /\ target_pattern = None
    /\ directory = None
    /\ matched_files = None

SelectIdle ==
    /\ all_files = None
    /\ candidates = None
    /\ best_file = None
    /\ pattern_candidates = None
    /\ source_files = None

CodeIdle ==
    /\ name_given = None
    /\ codes_found = None
    /\ source_given = None
    /\ translation_expression = None

CfgIdle ==
    /\ command = None
    /\ tree = None
    /\ tree0 = None
    /\ printed = None

TxIdle ==
    /\ tx_yaml = None
    /\ github_repository = None
    /\ lookup_table = None
    /\ tx_config = None

ExtraIdle == CodeIdle /\ CfgIdle /\ TxIdle

FunIdle == StatsIdle /\ MatchIdle /\ SelectIdle /\ ExtraIdle

\* Result<(), CmdError>; a panic of the process is the tag "Panic".
Ok == [tag |-> "Ok", lang |-> None, a |-> 0, b |-> 0]
Err(tag, lang, a, b) == [tag |-> tag, lang |-> lang, a |-> a, b |-> b]

\* Simplified and traditional spelling of one text (the fixtures' texts).
Hans == "nei_hans"
Hant == "nei_hant"

\* --------------------------------------------------------- zhconv wrapper
correct_language_code(language_code) ==
    CASE language_code = "zh_TW" -> "zh-TW"
      [] language_code = "zh_CN" -> "zh-CN"
      [] language_code = "zh_HK" -> "zh-HK"
      [] OTHER -> language_code

\* str::parse::<zhconv::Variant>: the tags the converter supports.
ParseVariant(tag) ==
    IF tag \in {"zh", "zh-Hant", "zh-Hans", "zh-TW", "zh-HK", "zh-MO",
                "zh-CN", "zh-SG", "zh-MY"}
    THEN [ok |-> TRUE, variant |-> tag]
    ELSE [ok |-> FALSE, variant |-> None]

\* zhconv::zhconv on the two spellings: traditional-script variants turn the
\* simplified spelling into the traditional one, simplified-script variants
\* do the reverse, "zh" converts nothing; the empty text stays empty.
zhconv(text, variant) ==
    IF variant \in {"zh-Hant", "zh-TW", "zh-HK", "zh-MO"}
    THEN (IF text = Hans THEN Hant ELSE text)
    ELSE IF variant \in {"zh-Hans", "zh-CN", "zh-SG", "zh-MY"}
    THEN (IF text = Hant THEN Hans ELSE text)
    ELSE text

zhconv_wrapper(text, target) ==
    LET parsed == ParseVariant(correct_language_code(target)) IN
    IF parsed.ok
    THEN [ok |-> TRUE, text |-> zhconv(text, parsed.variant)]
    ELSE [ok |-> FALSE, text |-> None]

\* ------------------------------------------------------ Linguist documents
\* TranslationType plus the absent attribute: no type means finished.
TranslationTypes == {None, "Unfinished", "Vanished", "Obsolete"}

\* struct Message with struct Translation flattened into it.
TsMessage(i, j, type_attr, value, numerus) ==
    [ source |-> <<"source", i, j>>,
      location |-> <<"line", j>>,
      comment |-> None,
      numerus |-> numerus,
      type_attr |-> type_attr,
      value |-> value,
      numerus_forms |-> IF numerus = None THEN << >> ELSE <<Hans>> ]

Context(name, messages) == [name |-> name, messages |-> messages]

Ts(language, contexts) == [language |-> language, version |-> "2.1", contexts |-> contexts]

\* Mutants of fill_translation: one leaves the status, one leaves the text.
fill_translation_keeps_type(message, translation) ==
    [message EXCEPT !.value = translation]

fill_translation_keeps_value(message, translation) ==
    [message EXCEPT !.type_attr = None]

\* Message::fill_translation
fill_translation(message, translation) ==
    [message EXCEPT !.value = translation, !.type_attr = None]

\* Mutant of ClearContext: everything but Unfinished is taken for finished.
ClearContext_clears_obsolete(context) ==
    [context EXCEPT !.messages =
        [j \in 1..Len(context.messages) |->
            LET message == context.messages[j] IN
            IF message.type_attr = "Unfinished"
            THEN message
            ELSE [message EXCEPT !.value = None, !.type_attr = "Unfinished"]]]

\* The inner loop of Ts::clear_finished_messages over one context.
ClearContext(context) ==
    [context EXCEPT !.messages =
        [j \in 1..Len(context.messages) |->
            LET message == context.messages[j] IN
            IF message.type_attr # None
            THEN message
            ELSE [message EXCEPT !.value = None, !.type_attr = "Unfinished"]]]

ts_clear_finished_messages(ts) ==
    [ts EXCEPT !.contexts = [i \in 1..Len(ts.contexts) |-> ClearContext(ts.contexts[i])]]

ts_set_language(ts, language) == [ts EXCEPT !.language = language]

\* Mutant of TsFillMessages: the status of the target message is not looked
\* at, so finished entries are filled again.
RECURSIVE TsFillMessages_any_target(_, _, _, _)
TsFillMessages_any_target(source_messages, messages, language_code, index) ==
    IF index > Len(messages)
    THEN [res |-> Ok, messages |-> messages]
    ELSE
        LET message == messages[index]
            source_message == source_messages[index]
        IN
        IF source_message.type_attr = "Unfinished"
        THEN TsFillMessages_any_target(source_messages, messages, language_code, index + 1)
        ELSE IF source_message.value # None
        THEN
            LET converted == zhconv_wrapper(source_message.value, language_code) IN
            IF converted.ok
            THEN TsFillMessages_any_target(source_messages,
                    [messages EXCEPT ![index] = fill_translation(message, converted.text)],
                    language_code, index + 1)
            ELSE [res |-> Err("ParseLanguageCode", None, 0, 0), messages |-> messages]
        ELSE TsFillMessages_any_target(source_messages, messages, language_code, index + 1)

\* The inner loop of translate_ts_content (zhconv.rs:71-83) from message
\* `index` on: the messages as left by the loop, and Ok or the error of `?`.
RECURSIVE TsFillMessages(_, _, _, _)
TsFillMessages(source_messages, messages, language_code, index) ==
    IF index > Len(messages)
    THEN [res |-> Ok, messages |-> messages]
    ELSE
        LET message == messages[index]
            source_message == source_messages[index]
        IN
        IF message.type_attr # "Unfinished"
        THEN TsFillMessages(source_messages, messages, language_code, index + 1)
        ELSE IF source_message.type_attr = "Unfinished"
        THEN TsFillMessages(source_messages, messages, language_code, index + 1)
        ELSE IF source_message.value # None
        THEN
            LET converted == zhconv_wrapper(source_message.value, language_code) IN
            IF converted.ok
            THEN TsFillMessages(source_messages,
                    [messages EXCEPT ![index] = fill_translation(message, converted.text)],
                    language_code, index + 1)
            ELSE [res |-> Err("ParseLanguageCode", None, 0, 0), messages |-> messages]
        ELSE TsFillMessages(source_messages, messages, language_code, index + 1)

\* The outer loop of translate_ts_content (zhconv.rs:65-84) from context
\* `index` on: every context is checked and then filled before the next one
\* is looked at.
RECURSIVE TsFillContexts(_, _, _, _)
TsFillContexts(source_contexts, contexts, language_code, index) ==
    IF index > Len(contexts)
    THEN [res |-> Ok, contexts |-> contexts]
    ELSE
        LET context == contexts[index]
            source_context == source_contexts[index]
        IN
        IF Len(context.messages) # Len(source_context.messages)
        THEN [res |-> Err("DifferentMessages", language_code,
                          Len(source_context.messages), Len(context.messages)),
              contexts |-> contexts]
        ELSE
            LET filled == TsFillMessages(source_context.messages, context.messages,
                                         language_code, 1)
                now == [contexts EXCEPT ![index].messages = filled.messages]
            IN
            IF filled.res.tag # "Ok"
            THEN [res |-> filled.res, contexts |-> now]
            ELSE TsFillContexts(source_contexts, now, language_code, index + 1)

\* translate_ts_content(source_content, target_content): the Result and the
\* target document as the call leaves it.
translate_ts_content(source_content, target_content) ==
    IF target_content.language = None
    THEN [res |-> Err("MissingLanguageCode", None, 0, 0), doc |-> target_content]
    ELSE IF Len(target_content.contexts) # Len(source_content.contexts)
    THEN [res |-> Err("DifferentContexts", target_content.language, 0, 0),
          doc |-> target_content]
    ELSE
        LET out == TsFillContexts(source_content.contexts, target_content.contexts,
                                  target_content.language, 1)
        IN [res |-> out.res, doc |-> [target_content EXCEPT !.contexts = out.contexts]]


\* Mutant of ts_load_from_file_or_default: the clone is not cleared.
ts_load_from_file_or_default_no_clear(content, fallback, fallback_language_code) ==
    IF content = NoFile
    THEN [res |-> Ok, doc |-> ts_set_language(fallback, fallback_language_code)]
    ELSE IF content = Garbage
    THEN [res |-> Err("LoadTsTargetFile", None, 0, 0), doc |-> NotLoaded]
    ELSE [res |-> Ok, doc |-> content]

\* Ts::load_from_file_or_default: a missing file gives the bootstrapped
\* clone of the fallback, an existing one is parsed (and may fail to parse).
ts_load_from_file_or_default(content, fallback, fallback_language_code) ==
    IF content = NoFile
    THEN [res |-> Ok,
          doc |-> ts_clear_finished_messages(ts_set_language(fallback, fallback_language_code))]
    ELSE IF content = Garbage
    THEN [res |-> Err("LoadTsTargetFile", None, 0, 0), doc |-> NotLoaded]
    ELSE [res |-> Ok, doc |-> content]

\* ------------------------------------------------------- Gettext documents
\* polib::message::Message: a singular message keeps its translation in
\* msgstr, a plural one in msgstr_plural.
PoMessage(k, is_plural, text) ==
    [ msgid |-> <<"msgid", k>>,
      msgctxt |-> "ctx",
      is_plural |-> is_plural,
      msgstr |-> IF is_plural THEN "" ELSE text,
      msgstr_plural |-> IF is_plural THEN <<text>> ELSE << >> ]

Po(language, messages) == [language |-> language, messages |-> messages]

\* MessageView::is_translated
is_translated(message) ==
    IF message.is_plural
    THEN \A n \in 1..Len(message.msgstr_plural) : message.msgstr_plural[n] # ""
    ELSE message.msgstr # ""

\* MessageView::msgstr: Err(SingularPluralMismatchError) on a plural message.
msgstr(message) ==
    IF message.is_plural
    THEN [ok |-> FALSE, text |-> None]
    ELSE [ok |-> TRUE, text |-> message.msgstr]

\* MessageMutView::set_msgstr on a singular message.
set_msgstr(message, text) == [message EXCEPT !.msgstr = text]

po_clear_finished_messages(po) ==
    [po EXCEPT !.messages =
        [k \in 1..Len(po.messages) |->
            LET message == po.messages[k] IN
            IF is_translated(message) /\ ~message.is_plural
            THEN set_msgstr(message, "")
            ELSE message]]

po_set_language(po, language) == [po EXCEPT !.language = language]

\* The loop of translate_po_content (zhconv.rs:100-110) from message `index`
\* on. reference_message.msgstr().unwrap() panics on a plural reference.
RECURSIVE PoFillMessages(_, _, _, _)
PoFillMessages(source_messages, messages, language_code, index) ==
    IF index > Len(messages)
    THEN [res |-> Ok, messages |-> messages]
    ELSE
        LET message == messages[index]
            reference_message == source_messages[index]
        IN
        IF is_translated(message)
        THEN PoFillMessages(source_messages, messages, language_code, index + 1)
        ELSE IF is_translated(reference_message) /\ ~is_translated(message)
                /\ ~message.is_plural
        THEN
            LET got == msgstr(reference_message) IN
            IF ~got.ok
            THEN [res |-> Err("Panic", None, 0, 0), messages |-> messages]
            ELSE
                LET translated_msg == zhconv_wrapper(got.text, language_code) IN
                IF translated_msg.ok
                THEN PoFillMessages(source_messages,
                        [messages EXCEPT ![index] = set_msgstr(message, translated_msg.text)],
                        language_code, index + 1)
                ELSE [res |-> Err("ParseLanguageCode", None, 0, 0), messages |-> messages]
        ELSE PoFillMessages(source_messages, messages, language_code, index + 1)

\* Mutant of translate_po_content: DifferentMessages built with the counts
\* in the wrong order.
translate_po_content_swapped_counts(source_content, target_content) ==
    LET language_code == target_content.language
        target_msg_count == Len(target_content.messages)
        source_msg_count == Len(source_content.messages)
    IN
    IF target_msg_count # source_msg_count
    THEN [res |-> Err("DifferentMessages", language_code, target_msg_count, source_msg_count),
          doc |-> target_content]
    ELSE
        LET out == PoFillMessages(source_content.messages, target_content.messages,
                                  language_code, 1)
        IN [res |-> out.res, doc |-> [target_content EXCEPT !.messages = out.messages]]

translate_po_content(source_content, target_content) ==
    LET language_code == target_content.language
        target_msg_count == Len(target_content.messages)
        source_msg_count == Len(source_content.messages)
    IN
    IF target_msg_count # source_msg_count
    THEN [res |-> Err("DifferentMessages", language_code, source_msg_count, target_msg_count),
          doc |-> target_content]
    ELSE
        LET out == PoFillMessages(source_content.messages, target_content.messages,
                                  language_code, 1)
        IN [res |-> out.res, doc |-> [target_content EXCEPT !.messages = out.messages]]

po_load_from_file_or_default(content, fallback, fallback_language_code) ==
    IF content = NoFile
    THEN [res |-> Ok,
          doc |-> po_clear_finished_messages(po_set_language(fallback, fallback_language_code))]
    ELSE IF content = Garbage
    THEN [res |-> Err("LoadPoTargetFile", None, 0, 0), doc |-> NotLoaded]
    ELSE [res |-> Ok, doc |-> content]

\* ---------------------------------------------------- ZhConvFile dispatch
load_or_create_target_file(k, content, reference, fallback_language_code) ==
    IF k = "ts"
    THEN ts_load_from_file_or_default(content, reference, fallback_language_code)
    ELSE po_load_from_file_or_default(content, reference, fallback_language_code)

\* The variant of ZhConvFile a loaded document is held in.
Variant(doc) == IF "contexts" \in DOMAIN doc THEN "ts" ELSE "po"

\* Dispatches on the variants of both documents (zhconv.rs:166-176).
translate_content_based_on(k, target_content, reference_content) ==
    IF Variant(target_content) = "ts" /\ Variant(reference_content) = "ts"
    THEN translate_ts_content(reference_content, target_content)
    ELSE IF Variant(target_content) = "po" /\ Variant(reference_content) = "po"
    THEN translate_po_content(reference_content, target_content)
    ELSE [res |-> Err("MismatchedI18nFileType", None, 0, 0), doc |-> target_content]

get_language(k, doc) == doc.language

set_language(k, doc, language_code) ==
    IF k = "ts" THEN ts_set_language(doc, language_code) ELSE po_set_language(doc, language_code)

\* Mutant of ensure_target_language: the loaded language is kept.
ensure_target_language_keeps_language(k, target_content, target_language) ==
    target_content

\* subcmd_zhconv, zhconv.rs:210-214: a target whose language is missing or
\* is not the requested one gets the requested one.
ensure_target_language(k, target_content, target_language) ==
    IF get_language(k, target_content) = target_language
    THEN target_content
    ELSE set_language(k, target_content, target_language)

clear_finished_messages(k, doc) ==
    IF k = "ts" THEN ts_clear_finished_messages(doc) ELSE po_clear_finished_messages(doc)


\* ------------------------------------------------------- bounded documents
\* Linguist messages as the parser yields them: a plain message carries its
\* text in value, a numerus message in numerus_forms.
TsChoices ==
    (TranslationTypes \X {None, Hans} \X {None})
        \cup (TranslationTypes \X {None} \X {"yes"})

TsMessagesOf(choices, i, n) ==
    { [j \in 1..n |-> TsMessage(i, j, c[j][1], c[j][2], c[j][3])] : c \in [1..n -> choices] }

RECURSIVE TsContextSeqs(_, _, _)
TsContextSeqs(choices, shape, i) ==
    IF i = 0
    THEN { << >> }
    ELSE { Append(p, Context(<<"ctx", i>>, m)) :
             p \in TsContextSeqs(choices, shape, i - 1),
             m \in TsMessagesOf(choices, i, shape[i]) }

Shapes == UNION { [1..nc -> 0..MaxMessages] : nc \in 0..MaxContexts }

TsDocsOver(choices, languages) ==
    { Ts(l, c) : l \in languages,
                 c \in UNION { TsContextSeqs(choices, s, Len(s)) : s \in Shapes } }

TsDocs(languages) == TsDocsOver(TsChoices, languages)

PoChoices == BOOLEAN \X {"", Hans}

PoMessagesOf(choices, n) ==
    { [k \in 1..n |-> PoMessage(k, c[k][1], c[k][2])] : c \in [1..n -> choices] }

PoDocsOver(choices, max, languages) ==
    { Po(l, m) : l \in languages, m \in UNION { PoMessagesOf(choices, n) : n \in 0..max } }

PoDocs(languages) == PoDocsOver(PoChoices, MaxPoMessages, languages)

\* Language codes a target may carry or be asked for.
LangCodes == {"zh_TW", "fr"}

Docs(k, languages) ==
    IF k = "ts" THEN TsDocs(languages \cup {None}) ELSE PoDocs(languages \cup {""})

\* ----------------------------------------------------- the document machine
InitDoc ==
    /\ kind \in {"ts", "po"}
    /\ src \in (IF kind = "ts" THEN TsDocs({"zh_CN"}) ELSE PoDocs({"zh_CN"}))
    /\ src0 = src
    /\ file \in {NoFile, Garbage} \cup Docs(kind, LangCodes)
    /\ tgt = NotLoaded
    /\ pre = NotLoaded
    /\ res = Ok
    /\ op = "init"
    /\ arg = None
    /\ argv = None
    /\ disk = None
    /\ disk0 = None
    /\ pc = "doc"
    /\ target_contents = << >>
    /\ done_count = 0
    /\ FunIdle

\* ZhConvFile::load_or_create_target_file on the target path.
LoadOrCreate ==
    /\ op = "init"
    /\ \E fallback_language_code \in LangCodes :
         LET got == load_or_create_target_file(kind, file, src, fallback_language_code) IN
         /\ tgt' = got.doc
         /\ res' = got.res
         /\ arg' = fallback_language_code
    /\ pre' = tgt
    /\ op' = "load"
    /\ UNCHANGED <<kind, src, src0, file>>
    /\ UNCHANGED <<cmdvars, funvars>>

\* The language check that follows the load in subcmd_zhconv.
FixLanguage ==
    /\ op = "load"
    /\ tgt # NotLoaded
    /\ tgt' = ensure_target_language(kind, tgt, arg)
    /\ res' = Ok
    /\ pre' = tgt
    /\ op' = "lang"
    /\ UNCHANGED <<kind, src, src0, file, arg>>
    /\ UNCHANGED <<cmdvars, funvars>>

\* ZhConvFile::translate_content_based_on(&mut target, &source).
Propagate ==
    /\ op \in {"lang", "propagate", "clear"}
    /\ tgt # NotLoaded
    /\ res.tag # "Panic"
    /\ LET out == translate_content_based_on(kind, tgt, src) IN
         /\ tgt' = out.doc
         /\ res' = out.res
    /\ pre' = tgt
    /\ op' = "propagate"
    /\ UNCHANGED <<kind, src, src0, file, arg>>
    /\ UNCHANGED <<cmdvars, funvars>>

\* clear_finished_messages on the in-memory target.
ClearFinished ==
    /\ op \in {"lang", "propagate", "clear"}
    /\ tgt # NotLoaded
    /\ res.tag # "Panic"
    /\ tgt' = clear_finished_messages(kind, tgt)
    /\ res' = Ok
    /\ pre' = tgt
    /\ op' = "clear"
    /\ UNCHANGED <<kind, src, src0, file, arg>>
    /\ UNCHANGED <<cmdvars, funvars>>

NextDoc == LoadOrCreate \/ FixLanguage \/ Propagate \/ ClearFinished

SpecDoc == InitDoc /\ [][NextDoc]_vars


\* ------------------------------------------------------- the file system
\* A file name is its pieces; the language code is one of them.
FileName(language, ext) == <<"app_", language, ext>>

\* str::contains and str::replace on a file name.
contains(file_name, pat) == \E n \in 1..Len(file_name) : file_name[n] = pat

replace(file_name, from, to) ==
    [n \in 1..Len(file_name) |-> IF file_name[n] = from THEN to ELSE file_name[n]]

\* I18nFileKind::from_ext_hint
from_ext_hint(file_name) ==
    LET ext == file_name[Len(file_name)] IN
    IF ext = ".ts" THEN [ok |-> TRUE, kind |-> "ts"]
    ELSE IF ext \in {".po", ".pot"} THEN [ok |-> TRUE, kind |-> "po"]
    ELSE [ok |-> FALSE, kind |-> None]

\* ZhConvFile::load_file
load_file(file_path, content) ==
    LET hint == from_ext_hint(file_path) IN
    IF ~hint.ok
    THEN [res |-> Err("GuessI18nFileType", None, 0, 0), kind |-> None, doc |-> NotLoaded]
    ELSE IF content \in {NoFile, Garbage}
    THEN [res |-> Err(IF hint.kind = "ts" THEN "LoadTsSourceFile" ELSE "LoadPoSourceFile",
                      None, 0, 0),
          kind |-> hint.kind, doc |-> NotLoaded]
    ELSE [res |-> Ok, kind |-> hint.kind, doc |-> content]

\* Mutant of save_file: a failed save removes the file.
save_file_removes_on_failure(k, files, file_path, content) ==
    LET failed == Err(IF k = "ts" THEN "SaveTsFile" ELSE "SavePoFile", None, 0, 0) IN
    { [res |-> Ok, disk |-> [files EXCEPT ![file_path] = content]],
      [res |-> failed, disk |-> [files EXCEPT ![file_path] = NoFile]] }

\* ZhConvFile::save_file: the file is created (truncated) and then written;
\* either step may fail.
save_file(k, files, file_path, content) ==
    LET failed == Err(IF k = "ts" THEN "SaveTsFile" ELSE "SavePoFile", None, 0, 0) IN
    { [res |-> Ok, disk |-> [files EXCEPT ![file_path] = content]],
      [res |-> failed, disk |-> files],
      [res |-> failed, disk |-> [files EXCEPT ![file_path] = Garbage]] }

\* ------------------------------------------------------- subcmd_zhconv
\* zhconv.rs:206-208
target_file_path(file_name, source_language, target_language) ==
    replace(file_name, source_language, target_language)

\* Mutant of load_target: the bootstrapped document of a missing file is
\* written out at once.
load_target_creates_file(k, files, source_content, target_file_path_, target_language) ==
    LET got == load_or_create_target_file(k, files[target_file_path_], source_content,
                                          target_language)
    IN IF got.res.tag # "Ok"
       THEN [res |-> got.res, content |-> NotLoaded, disk |-> files]
       ELSE [res |-> Ok,
             content |-> ensure_target_language(k, got.doc, target_language),
             disk |-> IF files[target_file_path_] = NoFile
                      THEN [files EXCEPT ![target_file_path_] = got.doc]
                      ELSE files]

\* zhconv.rs:209-214: one target is loaded (or bootstrapped) and its language
\* is made the requested one; nothing is written.
load_target(k, files, source_content, target_file_path_, target_language) ==
    LET got == load_or_create_target_file(k, files[target_file_path_], source_content,
                                          target_language)
    IN IF got.res.tag # "Ok"
       THEN [res |-> got.res, content |-> NotLoaded, disk |-> files]
       ELSE [res |-> Ok,
             content |-> ensure_target_language(k, got.doc, target_language),
             disk |-> files]

\* Mutant of convert_and_save: the target is saved whatever the propagation
\* returned.
convert_and_save_always(k, files, source_content, target_path, target_content) ==
    LET out == translate_content_based_on(k, target_content, source_content) IN
    IF out.res.tag = "Panic"
    THEN { [res |-> out.res, content |-> out.doc, disk |-> files] }
    ELSE { [res |-> IF out.res.tag # "Ok" THEN out.res ELSE saved.res,
            content |-> out.doc, disk |-> saved.disk] :
             saved \in save_file(k, files, target_path, out.doc) }

\* zhconv.rs:219-220: one target is propagated and, when that returned Ok,
\* saved; the outcomes the file system allows.
convert_and_save(k, files, source_content, target_path, target_content) ==
    LET out == translate_content_based_on(k, target_content, source_content) IN
    IF out.res.tag # "Ok"
    THEN { [res |-> out.res, content |-> out.doc, disk |-> files] }
    ELSE { [res |-> saved.res, content |-> out.doc, disk |-> saved.disk] :
             saved \in save_file(k, files, target_path, out.doc) }

\* Documents of the command's directory.
CmdTsChoices == { <<None, Hans, None>>, <<"Unfinished", None, None>> }
CmdPoChoices == { <<FALSE, Hans>>, <<FALSE, "">>, <<TRUE, Hans>> }

CmdDocs(ext, languages) ==
    IF ext = ".ts" THEN TsDocsOver(CmdTsChoices, languages)
    ELSE IF ext = ".po" THEN PoDocsOver(CmdPoChoices, MaxCmdPoMessages, languages)
    ELSE {}

NoLanguage(ext) == IF ext = ".ts" THEN None ELSE ""

TargetLists ==
    UNION { [1..n -> {"zh_TW", "fr", "zh_CN"}] : n \in 1..MaxTargets }

Init ==
    /\ \E ext \in {".ts", ".po", ".txt"} :
         /\ argv \in [ source_language : {"zh_CN", "en"},
                       target_languages : TargetLists,
                       linguist_ts_file : {FileName("zh_CN", ext)} ]
         /\ \E source_file \in {NoFile, Garbage} \cup CmdDocs(ext, {"zh_CN"}),
               tw_file \in {NoFile, Garbage} \cup CmdDocs(ext, {NoLanguage(ext), "zh_TW", "fr"}),
               fr_file \in {NoFile, Garbage} \cup CmdDocs(ext, {NoLanguage(ext)}) :
              disk = [ p \in { FileName(l, ext) : l \in {"zh_CN", "zh_TW", "fr"} } |->
                         IF p[2] = "zh_CN" THEN source_file
                         ELSE IF p[2] = "zh_TW" THEN tw_file
                         ELSE fr_file ]
    /\ disk0 = disk
    /\ pc = "start"
    /\ kind = None
    /\ src = NotLoaded
    /\ res = Ok
    /\ target_contents = << >>
    /\ done_count = 0
    /\ FunIdle
    /\ src0 = NotLoaded
    /\ file = NoFile
    /\ tgt = NotLoaded
    /\ pre = NotLoaded
    /\ op = "cmd"
    /\ arg = None

\* zhconv.rs:193-201: the checks on the source file and its load.
Start ==
    /\ pc = "start"
    /\ LET file_path == argv.linguist_ts_file
           loaded == load_file(file_path, disk[file_path])
       IN
       IF disk[file_path] = NoFile
       THEN /\ res' = Err("FileNotFound", None, 0, 0)
            /\ pc' = "done"
            /\ UNCHANGED <<kind, src>>
       ELSE IF ~contains(file_path, argv.source_language)
       THEN /\ res' = Err("MismatchedLanguage", argv.source_language, 0, 0)
            /\ pc' = "done"
            /\ UNCHANGED <<kind, src>>
       ELSE IF loaded.res.tag # "Ok"
       THEN /\ res' = loaded.res
            /\ pc' = "done"
            /\ UNCHANGED <<kind, src>>
       ELSE /\ res' = Ok
            /\ pc' = "load"
            /\ kind' = loaded.kind
            /\ src' = loaded.doc
    /\ UNCHANGED <<argv, disk, disk0, target_contents, done_count>>
    /\ UNCHANGED <<docvars, funvars>>

\* zhconv.rs:204-216: one turn of the loop that loads the targets.
LoadTarget ==
    /\ pc = "load"
    /\ LET n == Len(target_contents) + 1
           target_language == argv.target_languages[n]
           path == target_file_path(argv.linguist_ts_file, argv.source_language,
                                    target_language)
           got == load_target(kind, disk, src, path, target_language)
       IN
       /\ disk' = got.disk
       /\ IF got.res.tag # "Ok"
          THEN /\ res' = got.res
               /\ pc' = "done"
               /\ UNCHANGED target_contents
          ELSE /\ res' = Ok
               /\ target_contents' =
                    Append(target_contents, [path |-> path, content |-> got.content])
               /\ pc' = IF n = Len(argv.target_languages) THEN "convert" ELSE "load"
    /\ UNCHANGED <<kind, src, argv, disk0, done_count>>
    /\ UNCHANGED <<docvars, funvars>>

\* zhconv.rs:218-223: one turn of the loop that propagates and saves.
ConvertTarget ==
    /\ pc = "convert"
    /\ LET n == done_count + 1
           target == target_contents[n]
       IN
       \E out \in convert_and_save(kind, disk, src, target.path, target.content) :
          /\ disk' = out.disk
          /\ target_contents' = [target_contents EXCEPT ![n].content = out.content]
          /\ res' = out.res
          /\ IF out.res.tag # "Ok"
             THEN pc' = "done" /\ UNCHANGED done_count
             ELSE /\ done_count' = n
                  /\ pc' = IF n = Len(target_contents) THEN "done" ELSE "convert"
    /\ UNCHANGED <<kind, src, argv, disk0>>
    /\ UNCHANGED <<docvars, funvars>>

Next == Start \/ LoadTarget \/ ConvertTarget

Spec == Init /\ [][Next]_vars

\* ------------------------------------------------------- MessageStats
\* MessageStats::new
MessageStats(finished, unfinished, vanished, obsolete, fuzzy) ==
    [finished |-> finished, unfinished |-> unfinished, vanished |-> vanished,
     obsolete |-> obsolete, fuzzy |-> fuzzy]

\* Ts::get_message_stats: the match on one message's translation type.
TsCountMessage(st, message) ==
    CASE message.type_attr = "Unfinished" -> [st EXCEPT !.unfinished = @ + 1]
      [] message.type_attr = "Vanished" -> [st EXCEPT !.vanished = @ + 1]
      [] message.type_attr = "Obsolete" -> [st EXCEPT !.obsolete = @ + 1]
      [] OTHER -> [st EXCEPT !.finished = @ + 1]

RECURSIVE TsCountMessages(_, _, _)
TsCountMessages(st, messages, index) ==
    IF index > Len(messages)
    THEN st
    ELSE TsCountMessages(TsCountMessage(st, messages[index]), messages, index + 1)

RECURSIVE TsCountContexts(_, _, _)
TsCountContexts(st, contexts, index) ==
    IF index > Len(contexts)
    THEN st
    ELSE TsCountContexts(TsCountMessages(st, contexts[index].messages, 1),
                         contexts, index + 1)

ts_get_message_stats(ts) ==
    TsCountContexts(MessageStats(0, 0, 0, 0, 0), ts.contexts, 1)

\* MessageView::is_fuzzy
is_fuzzy(message) == message.fuzzy

\* Mutant of PoCountMessage: the fuzzy flag is looked at first.
PoCountMessage_fuzzy_first(st, message) ==
    IF is_fuzzy(message) THEN [st EXCEPT !.fuzzy = @ + 1]
    ELSE IF is_translated(message) THEN [st EXCEPT !.finished = @ + 1]
    ELSE [st EXCEPT !.unfinished = @ + 1]

\* Po::get_message_stats: the test of one message.
PoCountMessage(st, message) ==
    IF is_translated(message) THEN [st EXCEPT !.finished = @ + 1]
    ELSE IF is_fuzzy(message) THEN [st EXCEPT !.fuzzy = @ + 1]
    ELSE [st EXCEPT !.unfinished = @ + 1]

RECURSIVE PoCountMessages(_, _, _)
PoCountMessages(st, messages, index) ==
    IF index > Len(messages)
    THEN st
    ELSE PoCountMessages(PoCountMessage(st, messages[index]), messages, index + 1)

po_get_message_stats(po) ==
    PoCountMessages(MessageStats(0, 0, 0, 0, 0), po.messages, 1)

get_message_stats(k, doc) ==
    IF k = "ts" THEN ts_get_message_stats(doc) ELSE po_get_message_stats(doc)

\* impl AddAssign<&Self> for MessageStats
add_assign(st, rhs) ==
    MessageStats(st.finished + rhs.finished, st.unfinished + rhs.unfinished,
                 st.vanished + rhs.vanished, st.obsolete + rhs.obsolete,
                 st.fuzzy + rhs.fuzzy)

shown_translated(st) == st.finished

shown_unfinished(st) == st.unfinished + st.fuzzy

shown_obsolete(st) == st.obsolete + st.vanished

\* The f64 values of the percentage are fractions: numerator and denominator
\* in lowest terms.
RECURSIVE Gcd(_, _)
Gcd(a, b) == IF b = 0 THEN a ELSE Gcd(b, a % b)

Fraction(num, den) ==
    LET g == Gcd(num, den) IN [num |-> num \div g, den |-> den \div g]

\* Mutant of completeness_percentage: the obsolete entries are part of the
\* total.
completeness_percentage_over_all(st) ==
    LET finished == shown_translated(st)
        total == finished + shown_unfinished(st) + shown_obsolete(st)
    IN IF total = 0
       THEN Fraction(0, 1)
       ELSE Fraction(finished * 100, total)

\* MessageStats::completeness_percentage: (finished / total) * 100.0
completeness_percentage(st) ==
    LET finished == shown_translated(st)
        unfinished == shown_unfinished(st)
        total == finished + unfinished
    IN IF total = 0
       THEN Fraction(0, 1)
       ELSE Fraction(finished * 100, total)

\* The documents that are counted.
StatTsChoices == { <<t, None, None>> : t \in TranslationTypes }
StatPoChoices == BOOLEAN \X {"", Hans} \X BOOLEAN

StatDocs(k) ==
    IF k = "ts"
    THEN TsDocsOver(StatTsChoices, {"zh_CN"})
    ELSE { Po("zh_CN",
              [n \in DOMAIN c |->
                  [fuzzy |-> c[n][3]] @@ PoMessage(n, c[n][1], c[n][2])]) :
             c \in UNION { [1..len -> StatPoChoices] : len \in 0..MaxPoMessages } }

StatTotal(st) == st.finished + st.unfinished + st.vanished + st.obsolete + st.fuzzy

InitStats ==
    /\ kind \in {"ts", "po"}
    /\ src \in StatDocs(kind)
    /\ stats = MessageStats(0, 0, 0, 0, 0)
    /\ op = "new"
    /\ MatchIdle
    /\ SelectIdle
    /\ ExtraIdle
    /\ src0 = src
    /\ file = NoFile
    /\ tgt = NotLoaded
    /\ pre = NotLoaded
    /\ res = Ok
    /\ arg = None
    /\ argv = None
    /\ disk = None
    /\ disk0 = None
    /\ pc = "stats"
    /\ target_contents = << >>
    /\ done_count = 0

\* statistics.rs: load_file_stats, the statistics of one file.
GetMessageStats ==
    /\ pc = "stats"
    /\ op = "new"
    /\ stats' = get_message_stats(kind, src)
    /\ op' = "count"
    /\ UNCHANGED <<kind, src, res, src0, file, tgt, pre, arg>>
    /\ UNCHANGED <<cmdvars, matchvars, selectvars, extravars>>

\* statistics.rs: total_stats += the statistics of another file.
AddAssign ==
    /\ pc = "stats"
    /\ op \in {"count", "sum"}
    /\ \E k \in {"ts", "po"} :
         \E d \in StatDocs(k) :
            LET rhs == get_message_stats(k, d) IN
            /\ StatTotal(stats) + StatTotal(rhs) <= MaxStatTotal
            /\ StatTotal(rhs) > 0
            /\ stats' = add_assign(stats, rhs)
    /\ op' = "sum"
    /\ UNCHANGED <<kind, src, res, src0, file, tgt, pre, arg>>
    /\ UNCHANGED <<cmdvars, matchvars, selectvars, extravars>>

NextStats == GetMessageStats \/ AddAssign

SpecStats == InitStats /\ [][NextStats]_vars

\* ------------------------------------------------- match_target_files
\* Text is a sequence of characters; the token <lang> is one symbol of it.
LANG == "<lang>"

\* [a-z_A-Z]: the letters in use and the underscore.
LangCodeChars == {"a", "b", "t", "z", "Z", "_"}
LangCodeMin == 2
LangCodeMax == 6

\* str::split("<lang>")
RECURSIVE Split(_, _, _)
Split(text, index, part) ==
    IF index > Len(text)
    THEN << part >>
    ELSE IF text[index] = LANG
    THEN << part >> \o Split(text, index + 1, << >>)
    ELSE Split(text, index + 1, Append(part, text[index]))

\* Mutant of escape: the text goes into the pattern as it is, a dot
\* standing for any character.
escape_nothing(text) ==
    [n \in 1..Len(text) |-> IF text[n] = "." THEN [any |-> TRUE, lit |-> None]
                                             ELSE [any |-> FALSE, lit |-> text[n]]]

\* regex::escape: every character stands for itself.
escape(text) == [n \in 1..Len(text) |-> [any |-> FALSE, lit |-> text[n]]]

\* create_filter_pattern: ^ escape(parts[0]) ([a-z_A-Z]{2,6}) escape(parts[1]) $
create_filter_pattern(pattern) ==
    LET parts == Split(pattern, 1, << >>) IN
    IF Len(parts) # 2
    THEN [some |-> FALSE, prefix |-> << >>, suffix |-> << >>]
    ELSE [some |-> TRUE, prefix |-> escape(parts[1]), suffix |-> escape(parts[2])]

ItemMatches(item, char) == item.any \/ item.lit = char

\* The items match the text from position from on, one character each.
ItemsMatchAt(items, text, from) ==
    /\ from + Len(items) - 1 <= Len(text)
    /\ \A n \in 1..Len(items) : ItemMatches(items[n], text[from + n - 1])

ClassRunAt(text, from, count) ==
    /\ from + count - 1 <= Len(text)
    /\ \A n \in from..(from + count - 1) : text[n] \in LangCodeChars

\* Regex::captures of the anchored filter pattern: group 1, the longest run
\* tried first.
captures(regex, text) ==
    LET fits == { count \in LangCodeMin..LangCodeMax :
                    /\ Len(regex.prefix) + count + Len(regex.suffix) = Len(text)
                    /\ ItemsMatchAt(regex.prefix, text, 1)
                    /\ ClassRunAt(text, Len(regex.prefix) + 1, count)
                    /\ ItemsMatchAt(regex.suffix, text, Len(regex.prefix) + count + 1) }
    IN IF fits = {}
       THEN [some |-> FALSE, group |-> << >>]
       ELSE LET count == CHOOSE c \in fits : \A d \in fits : d <= c
            IN [some |-> TRUE,
                group |-> SubSeq(text, Len(regex.prefix) + 1, Len(regex.prefix) + count)]

\* Regex::is_match of [a-z_A-Z]{2,6}, which is not anchored.
language_code_regex_is_match(text) ==
    \E from \in 1..Len(text) : ClassRunAt(text, from, LangCodeMin)

MatchOk(files) == [ok |-> TRUE, files |-> files, error |-> None]
MatchErr(error) == [ok |-> FALSE, files |-> << >>, error |-> error]

\* Mutant of MatchFileNames: the pair holds the scanned directory, not the
\* matched file.
RECURSIVE MatchFileNames_pairs_directory(_, _, _, _, _)
MatchFileNames_pairs_directory(regex, target_parent, target_files, index, matched) ==
    IF index > Len(target_files)
    THEN MatchOk(matched)
    ELSE LET file_ == target_files[index]
             found == captures(regex, file_.name)
         IN IF file_.err
            THEN MatchErr("io")
            ELSE MatchFileNames_pairs_directory(regex, target_parent, target_files,
                    index + 1,
                    IF found.some
                    THEN Append(matched, <<found.group, target_parent>>)
                    ELSE matched)

\* yaml_file.rs:94-108: the loop over the entries of the parent directory.
RECURSIVE MatchFileNames(_, _, _, _, _)
MatchFileNames(regex, target_parent, target_files, index, matched) ==
    IF index > Len(target_files)
    THEN MatchOk(matched)
    ELSE LET file_ == target_files[index]
             found == captures(regex, file_.name)
         IN IF file_.err
            THEN MatchErr("io")
            ELSE MatchFileNames(regex, target_parent, target_files, index + 1,
                    IF found.some
                    THEN Append(matched, <<found.group, Append(target_parent, file_.name)>>)
                    ELSE matched)

\* yaml_file.rs:140-156: the loop over the children of the directory before
\* <lang>.
RECURSIVE MatchFolders(_, _, _, _, _)
MatchFolders(parent_dir, remain_path, language_folders, index, matched) ==
    IF index > Len(language_folders)
    THEN MatchOk(matched)
    ELSE LET language_folder == language_folders[index] IN
         MatchFolders(parent_dir, remain_path, language_folders, index + 1,
            IF /\ ~language_folder.err
               /\ language_code_regex_is_match(language_folder.name)
               /\ language_folder.has_file
            THEN Append(matched,
                        <<language_folder.name,
                          Append(parent_dir, language_folder.name) \o remain_path>>)
            ELSE matched)

\* The index of the first component that is <lang>, 0 when there is none.
LangComponent(path) ==
    LET at == { n \in 1..Len(path) : path[n] = << LANG >> }
    IN IF at = {} THEN 0 ELSE CHOOSE n \in at : \A m \in at : n <= m

\* Filter::match_target_files; path is project_root joined with the
\* pattern, dir the directory that is scanned.
match_target_files(path, dir) ==
    LET target_filename_pattern == path[Len(path)]
        regex == create_filter_pattern(target_filename_pattern)
        lang_at == LangComponent(path)
    IN IF \E n \in 1..Len(target_filename_pattern) : target_filename_pattern[n] = LANG
       THEN IF ~regex.some THEN MatchErr("Filter pattern not valid")
            ELSE IF ~dir.readable THEN MatchErr("io")
            ELSE MatchFileNames(regex, SubSeq(path, 1, Len(path) - 1), dir.entries,
                                1, << >>)
       ELSE IF lang_at = 0 THEN MatchErr("Missing <lang> inside the pattern.")
            ELSE IF ~dir.readable THEN MatchErr("io")
            ELSE MatchFolders(SubSeq(path, 1, lang_at - 1),
                              SubSeq(path, lang_at + 1, Len(path)),
                              dir.entries, 1, << >>)

\* The names of the scanned directory: a head, a body and a tail.
Run(char, count) == [n \in 1..count |-> char]

NameHeads == { << >>, <<"a", ".">>, <<"a", "b">> }
NameTails == { << >>, <<".", "t">> }
NameBodies ==
    { Run("z", count) : count \in {LangCodeMin - 1, LangCodeMin, LangCodeMax,
                                   LangCodeMax + 1} }
    \cup { <<"z", "1">>, <<"Z", "_">>, <<"z", ".">> }

Names == { h \o b \o t : h \in NameHeads, b \in NameBodies, t \in NameTails }

MaxEntries == 2

DirEntries ==
    { [err |-> FALSE, name |-> n, has_file |-> f] : n \in Names, f \in BOOLEAN }
    \cup { [err |-> TRUE, name |-> << >>, has_file |-> FALSE] }

Listings ==
    { l \in UNION { [1..n -> DirEntries] : n \in 0..MaxEntries } :
        \A i, j \in DOMAIN l : (l[i].name = l[j].name /\ ~l[i].err) => i = j }

Directories ==
    { [readable |-> TRUE, entries |-> l] : l \in Listings }
    \cup { [readable |-> FALSE, entries |-> << >>] }

Patterns ==
    { << <<"d">>, h \o << LANG >> \o t >> : h \in NameHeads, t \in NameTails }
    \cup { << <<"d">>, << LANG, "_", LANG >> >>,
           << <<"d">>, << LANG >>, <<"f", ".", "t">> >>,
           << << LANG >>, <<"s">>, <<"f", ".", "t">> >>,
           << <<"d">>, <<"f", ".", "t">> >>,
           << <<"d">>, <<"a", LANG>>, <<"f", ".", "t">> >> }

InitMatch ==
    /\ target_pattern \in Patterns
    /\ directory \in Directories
    /\ matched_files = None
    /\ StatsIdle
    /\ SelectIdle
    /\ ExtraIdle
    /\ kind = None
    /\ src = NotLoaded
    /\ src0 = NotLoaded
    /\ file = NoFile
    /\ tgt = NotLoaded
    /\ pre = NotLoaded
    /\ res = Ok
    /\ op = "match"
    /\ arg = None
    /\ argv = None
    /\ disk = None
    /\ disk0 = None
    /\ pc = "match"
    /\ target_contents = << >>
    /\ done_count = 0

MatchTargetFiles ==
    /\ pc = "match"
    /\ matched_files' = match_target_files(target_pattern, directory)
    /\ pc' = "matched"
    /\ UNCHANGED <<target_pattern, directory>>
    /\ UNCHANGED <<kind, src, res, docvars, statvars, selectvars, extravars>>
    /\ UNCHANGED <<argv, disk, disk0, target_contents, done_count>>

NextMatch == MatchTargetFiles

SpecMatch == InitMatch /\ [][NextMatch]_vars

\* ------------------------------------------------ source file selection
\* A file name is a sequence of words and separators: "app_en_US.ts" is
\* <<"app", "_", "en", "_", "US", ".", "ts">>. No word of the names in use
\* begins or ends with another one, so a search for a piece of text finds
\* what the search for its words finds. A path relative to the project root
\* is such a sequence with "/" between its components; the files lie in the
\* project root or in a directory of it.
LowerWords == {"app", "de", "en", "fr", "po", "ts"}
UpperWords == {"GB", "US"}
\* The words in the order of their bytes.
WordOrder == <<"GB", "US", "app", "de", "en", "fr", "po", "ts">>

en == <<"en">>
en_US == <<"en", "_", "US">>
en_GB == <<"en", "_", "GB">>

\* str::contains, str::starts_with, str::ends_with
ContainsAt(text, pat, at) ==
    /\ at + Len(pat) - 1 <= Len(text)
    /\ \A n \in 1..Len(pat) : text[at + n - 1] = pat[n]

Contains(text, pat) == \E at \in 1..(Len(text) + 1) : ContainsAt(text, pat, at)

StartsWith(text, pat) == ContainsAt(text, pat, 1)

EndsWith(text, pat) ==
    Len(pat) <= Len(text) /\ ContainsAt(text, pat, Len(text) - Len(pat) + 1)

\* str::replace: every occurrence, from the left, not overlapping.
RECURSIVE Replace(_, _, _, _)
Replace(text, pat, to, at) ==
    IF at > Len(text)
    THEN << >>
    ELSE IF ContainsAt(text, pat, at)
    THEN to \o Replace(text, pat, to, at + Len(pat))
    ELSE << text[at] >> \o Replace(text, pat, to, at + 1)

\* Path::components, Path::file_name and Path::parent of a relative path.
Slashes(path) == { n \in 1..Len(path) : path[n] = "/" }

LastSlash(path) ==
    IF Slashes(path) = {} THEN 0
    ELSE CHOOSE n \in Slashes(path) : \A m \in Slashes(path) : m <= n

RECURSIVE components(_)
components(path) ==
    IF Slashes(path) = {} THEN << path >>
    ELSE LET first == CHOOSE n \in Slashes(path) : \A m \in Slashes(path) : n <= m
         IN << SubSeq(path, 1, first - 1) >>
                \o components(SubSeq(path, first + 1, Len(path)))

file_name(path) == SubSeq(path, LastSlash(path) + 1, Len(path))

parent(path) == SubSeq(path, 1, LastSlash(path) - 1)

\* Path::file_stem and Path::extension of a file name.
LastDot(filename) ==
    LET dots == { n \in 2..Len(filename) : filename[n] = "." }
    IN IF dots = {} THEN 0 ELSE CHOOSE n \in dots : \A m \in dots : m <= n

file_stem(filename) ==
    IF LastDot(filename) = 0 THEN filename
    ELSE SubSeq(filename, 1, LastDot(filename) - 1)

extension(filename) ==
    IF LastDot(filename) = 0 THEN << >>
    ELSE SubSeq(filename, LastDot(filename) + 1, Len(filename))

\* is_language_code: ^[a-z]{2,3}(_[A-Z]{2,3})?$
is_language_code(code) ==
    \/ Len(code) = 1 /\ code[1] \in LowerWords
    \/ Len(code) = 3 /\ code[1] \in LowerWords /\ code[2] = "_" /\ code[3] \in UpperWords

is_file_extension(text) == text \in { <<"po">>, <<"ts">> }

is_english_language_code(lang_code) == lang_code \in {en, en_US, en_GB}

\* Regex::captures of <separator>([a-z]{2,3}(?:_[A-Z]{2,3})?)$ on the stem:
\* the match that begins further left is the one found.
CodeAtEnd(stem, separator) ==
    LET n == Len(stem) IN
    IF n >= 4 /\ stem[n - 3] = separator /\ is_language_code(SubSeq(stem, n - 2, n))
    THEN << SubSeq(stem, n - 2, n) >>
    ELSE IF n >= 2 /\ stem[n - 1] = separator /\ is_language_code(SubSeq(stem, n, n))
    THEN << SubSeq(stem, n, n) >>
    ELSE << >>

\* The order of String on the codes.
WordRank(word) == CHOOSE n \in 1..Len(WordOrder) : WordOrder[n] = word

CodeLess(a, b) ==
    \/ WordRank(a[1]) < WordRank(b[1])
    \/ a[1] = b[1] /\ Len(a) < Len(b)
    \/ a[1] = b[1] /\ Len(a) = 3 /\ Len(b) = 3 /\ WordRank(a[3]) < WordRank(b[3])

\* codes.sort(); codes.dedup();
RECURSIVE InsertCode(_, _)
InsertCode(sorted, code) ==
    IF sorted = << >> THEN << code >>
    ELSE IF code = sorted[1] THEN sorted
    ELSE IF CodeLess(code, sorted[1]) THEN << code >> \o sorted
    ELSE << sorted[1] >> \o InsertCode(Tail(sorted), code)

RECURSIVE SortDedup(_)
SortDedup(codes) ==
    IF codes = << >> THEN << >>
    ELSE InsertCode(SortDedup(Tail(codes)), codes[1])

find_language_codes_in_filename(filename) ==
    SortDedup(CodeAtEnd(file_stem(filename), "_") \o CodeAtEnd(file_stem(filename), "."))

\* verify_language_code_in_path of a component at the top of the relative
\* path: the components before it collect to the empty path, canonicalize
\* fails on it and no sibling directory is looked at.
verify_language_code_in_path(suspected_lang_code) ==
    suspected_lang_code \in {en, en_US, <<"es">>, <<"zh", "_", "CN">>}

\* The components the loops of get_language_folder_in_path and
\* find_language_codes_in_path take for language codes, in path order.
RECURSIVE LanguageComponents(_, _)
LanguageComponents(parts, index) ==
    IF index > Len(parts)
    THEN << >>
    ELSE (IF ~is_file_extension(parts[index]) /\ is_language_code(parts[index])
             /\ verify_language_code_in_path(parts[index])
          THEN << parts[index] >>
          ELSE << >>) \o LanguageComponents(parts, index + 1)

\* get_language_folder_in_path: Option<String> as a list of at most one.
get_language_folder_in_path(path) ==
    LET found == LanguageComponents(components(path), 1)
    IN IF found = << >> THEN << >> ELSE << found[1] >>

find_language_codes_in_path(path) ==
    SortDedup(find_language_codes_in_filename(file_name(path))
                \o LanguageComponents(components(path), 1))

\* Mutant of get_source_file_priority: en_GB ranks above en_US.
get_source_file_priority_gb_first(file_path) ==
    LET detected_langs == find_language_codes_in_filename(file_name(file_path)) IN
    IF detected_langs = << >> THEN 100
    ELSE CASE detected_langs[1] = en -> 90
           [] detected_langs[1] = en_US -> 70
           [] detected_langs[1] = en_GB -> 80
           [] OTHER -> 10

\* get_source_file_priority: the loop returns on the first detected code.
get_source_file_priority(file_path) ==
    LET detected_langs == find_language_codes_in_filename(file_name(file_path)) IN
    IF detected_langs = << >> THEN 100
    ELSE CASE detected_langs[1] = en -> 90
           [] detected_langs[1] = en_US -> 80
           [] detected_langs[1] = en_GB -> 70
           [] OTHER -> 10

\* select_best_source_file: the loop over candidates.iter().skip(1)
RECURSIVE BestFrom(_, _, _)
BestFrom(list, index, best_candidate) ==
    IF index > Len(list)
    THEN best_candidate
    ELSE BestFrom(list, index + 1,
            IF get_source_file_priority(list[index])
                  > get_source_file_priority(best_candidate)
            THEN list[index]
            ELSE best_candidate)

\* Option<PathBuf>
NoPath == [some |-> FALSE, path |-> << >>]
SomePath(path) == [some |-> TRUE, path |-> path]

select_best_source_file(list) ==
    IF Len(list) = 0 THEN NoPath
    ELSE IF Len(list) = 1 THEN SomePath(list[1])
    ELSE SomePath(BestFrom(list, 2, list[1]))

\* try_extract_pattern_from_filename
try_extract_pattern_from_filename(path_str, lang_code) ==
    IF Contains(path_str, <<"_">> \o lang_code)
    THEN SomePath(Replace(path_str, <<"_">> \o lang_code, <<"_", LANG>>, 1))
    ELSE IF Contains(path_str, <<".">> \o lang_code)
    THEN SomePath(Replace(path_str, <<".">> \o lang_code, <<".", LANG>>, 1))
    ELSE IF StartsWith(file_name(path_str), lang_code \o <<".">>)
    THEN IF parent(path_str) = << >>
         THEN SomePath(<<LANG, ".">> \o extension(file_name(path_str)))
         ELSE SomePath(parent(path_str) \o <<"/", LANG, ".">>
                          \o extension(file_name(path_str)))
    ELSE NoPath

\* Path::components collected to a path again.
RECURSIVE JoinPath(_)
JoinPath(parts) ==
    IF Len(parts) = 1 THEN parts[1]
    ELSE parts[1] \o <<"/">> \o JoinPath(Tail(parts))

\* try_extract_pattern_from_path: the first component that is the code.
try_extract_pattern_from_path(path_str, lang_code) ==
    LET parts == components(path_str)
        hits == { n \in 1..Len(parts) : parts[n] = lang_code }
    IN IF hits = {} THEN NoPath
       ELSE LET i == CHOOSE n \in hits : \A m \in hits : n <= m
            IN SomePath(JoinPath([parts EXCEPT ![i] = << LANG >>]))

\* The first pattern the codes of a list give, with f(code) an Option.
RECURSIVE FirstPattern(_, _, _)
FirstPattern(path_str, codes, index) ==
    IF index > Len(codes)
    THEN NoPath
    ELSE LET by_name == try_extract_pattern_from_filename(path_str, codes[index])
             by_path == try_extract_pattern_from_path(path_str, codes[index])
         IN IF by_name.some THEN by_name
            ELSE IF by_path.some THEN by_path
            ELSE FirstPattern(path_str, codes, index + 1)

\* infer_pattern_from_related_files: the codes of one other file.
RECURSIVE InferFromCodes(_, _, _, _)
InferFromCodes(file_path, other, lang_codes, index) ==
    IF index > Len(lang_codes)
    THEN NoPath
    ELSE LET lang_code == lang_codes[index]
             other_stem == file_stem(file_name(other))
             expected_base == Replace(other_stem, <<"_">> \o lang_code, << >>, 1)
             expected_base2 == Replace(other_stem, <<".">> \o lang_code, << >>, 1)
             pattern == try_extract_pattern_from_filename(other, lang_code)
         IN IF (expected_base = file_stem(file_name(file_path))
                  \/ expected_base2 = file_stem(file_name(file_path)))
               /\ pattern.some
            THEN pattern
            ELSE InferFromCodes(file_path, other, lang_codes, index + 1)

RECURSIVE InferFromFiles(_, _, _)
InferFromFiles(file_path, files, index) ==
    IF index > Len(files)
    THEN NoPath
    ELSE LET other == files[index]
             found == InferFromCodes(file_path, other,
                                     find_language_codes_in_filename(file_name(other)), 1)
         IN IF parent(other) = parent(file_path)
               /\ extension(file_name(other)) = extension(file_name(file_path))
               /\ found.some
            THEN found
            ELSE InferFromFiles(file_path, files, index + 1)

infer_pattern_from_related_files(file_path, files) ==
    InferFromFiles(file_path, files, 1)

get_translation_pattern_with_inference(file_path, files) ==
    LET detected_langs == find_language_codes_in_path(file_path)
        pattern == FirstPattern(file_path, detected_langs, 1)
        inferred_pattern == infer_pattern_from_related_files(file_path, files)
    IN IF pattern.some THEN pattern.path
       ELSE IF detected_langs = << >> /\ inferred_pattern.some THEN inferred_pattern.path
       ELSE file_path

is_english_source_file(filename) ==
    \/ Contains(filename, en_US)
    \/ Contains(filename, <<"_", "en", ".">>)
    \/ EndsWith(filename, <<"_", "en", ".", "ts">>)
    \/ EndsWith(filename, <<"_", "en", ".", "po">>)
    \/ EndsWith(filename, <<".", "en", ".", "ts">>)
    \/ EndsWith(filename, <<".", "en", ".", "po">>)

contains_non_english_language_code(filename) ==
    LET detected_langs == find_language_codes_in_filename(filename) IN
    \E n \in 1..Len(detected_langs) : ~is_english_language_code(detected_langs[n])

\* The text up to the first dot: suffix.split('.').next()
UpToDot(text) ==
    LET dots == { n \in 1..Len(text) : text[n] = "." }
    IN IF dots = {} THEN text
       ELSE SubSeq(text, 1, (CHOOSE n \in dots : \A m \in dots : n <= m) - 1)

has_related_translation_files(source_file, files) ==
    \E n \in 1..Len(files) :
        LET file_ == files[n]
            source_name == file_stem(file_name(source_file))
            source_ext == extension(file_name(source_file))
            suffix == SubSeq(file_name(file_), Len(source_name) + 2, Len(file_name(file_)))
        IN /\ file_ # source_file
           /\ parent(file_) = parent(source_file)
           /\ extension(file_name(file_)) = source_ext
           /\ StartsWith(file_name(file_), source_name \o <<"_">>)
           /\ ~StartsWith(suffix, source_ext)
           /\ is_language_code(UpToDot(suffix))

is_common_source_po_file(filename) ==
    \/ StartsWith(filename, <<"messages">>)
    \/ StartsWith(filename, <<"strings">>)
    \/ StartsWith(filename, <<"template">>)
    \/ Contains(filename, <<"_", "template">>)
    \/ filename = <<"default", ".", "po">>
    \/ filename = <<"base", ".", "po">>

is_likely_source_file(file_path, files) ==
    LET lang_folder == get_language_folder_in_path(file_path)
        filename == file_name(file_path)
    IN
    IF is_english_source_file(filename) THEN TRUE
    ELSE IF lang_folder # << >> THEN is_english_language_code(lang_folder[1])
    ELSE IF contains_non_english_language_code(filename) THEN FALSE
    ELSE IF has_related_translation_files(file_path, files) THEN TRUE
    ELSE IF extension(filename) = <<"ts">> THEN TRUE
    ELSE IF extension(filename) = <<"po">> THEN is_common_source_po_file(filename)
    ELSE FALSE

\* identify_source_files: the HashMap of the candidates of each pattern,
\* every Vec in the order of all_files.
RECURSIVE CollectCandidates(_, _, _)
CollectCandidates(files, index, map) ==
    IF index > Len(files)
    THEN map
    ELSE LET file_path == files[index]
             pattern_key == get_translation_pattern_with_inference(file_path, files)
         IN CollectCandidates(files, index + 1,
               IF ~is_likely_source_file(file_path, files) THEN map
               ELSE IF pattern_key \in DOMAIN map
               THEN [map EXCEPT ![pattern_key] = Append(@, file_path)]
               ELSE [k \in DOMAIN map \cup {pattern_key} |->
                       IF k = pattern_key THEN << file_path >> ELSE map[k]])

EmptyMap == [k \in {} |-> << >>]

\* The order of PathBuf: component by component, a component by its bytes.
\* "/" goes first, so that a path is below every longer path that begins
\* with its components.
PathOrder ==
    <<"/", ".", "GB", "US", "_", "app", "de", "en", "fr", "main", "po", "ts">>

PathRank(word) == CHOOSE n \in 1..Len(PathOrder) : PathOrder[n] = word

RECURSIVE PathLess(_, _)
PathLess(a, b) ==
    IF b = << >> THEN FALSE
    ELSE IF a = << >> THEN TRUE
    ELSE IF a[1] = b[1] THEN PathLess(Tail(a), Tail(b))
    ELSE PathRank(a[1]) < PathRank(b[1])

\* source_files.sort() on the files pushed in the HashMap's order.
RECURSIVE sort(_)
sort(paths) ==
    IF paths = {} THEN << >>
    ELSE LET least == CHOOSE x \in paths : \A y \in paths : ~PathLess(y, x)
         IN << least >> \o sort(paths \ {least})

\* identify_source_files: the best file of every pattern, sorted.
identify_source_files(files) ==
    LET map == CollectCandidates(files, 1, EmptyMap) IN
    [map |-> map,
     source_files |-> sort({ select_best_source_file(map[k]).path : k \in DOMAIN map })]

\* The file names: app, an ending with a language code or none, after app
\* and app_en a second ending or none, an extension.
FirstEndings ==
    { << >> } \cup { << sep >> \o code : sep \in {"_", "."},
                                      code \in {en, en_US, en_GB, <<"fr">>} }
SecondEndings == { << >>, <<".", "fr">>, <<".", "de">> }

FileNames ==
    { <<"app">> \o a \o b \o <<".", ext>> :
        a \in FirstEndings, b \in SecondEndings, ext \in {"ts", "po"} }
    \ { <<"app">> \o a \o b \o <<".", ext>> :
        a \in FirstEndings \ { << >>, <<"_", "en">> },
        b \in SecondEndings \ { << >> }, ext \in {"ts", "po"} }

\* The files of the directories fr, en and po of the project root.
FolderFiles ==
    { << folder, "/", "app" >> \o ending \o <<".", "ts">> :
        folder \in {"fr", "en", "po"},
        ending \in { << >>, <<"_", "fr">>, <<"_", "en">> } }

\* A file whose stem holds _fr before its last word, and its French variant.
StemCodeFiles ==
    { <<"app", "_", "fr", "_", "main", ".", "ts">>,
      <<"app", "_", "fr", "_", "main", "_", "fr", ".", "ts">> }

MaxFiles == 3

FileLists ==
    { l \in UNION { [1..n -> FileNames \cup FolderFiles \cup StemCodeFiles] :
                      n \in 0..MaxFiles } :
        \A i, j \in DOMAIN l : l[i] = l[j] => i = j }

InitSelect ==
    /\ all_files \in FileLists
    /\ candidates = None
    /\ best_file = None
    /\ pattern_candidates = None
    /\ source_files = None
    /\ StatsIdle
    /\ MatchIdle
    /\ ExtraIdle
    /\ kind = None
    /\ src = NotLoaded
    /\ src0 = NotLoaded
    /\ file = NoFile
    /\ tgt = NotLoaded
    /\ pre = NotLoaded
    /\ res = Ok
    /\ op = "select"
    /\ arg = None
    /\ argv = None
    /\ disk = None
    /\ disk0 = None
    /\ pc = "scanned"
    /\ target_contents = << >>
    /\ done_count = 0

\* select_best_source_file on a list of files.
SelectBestSourceFile ==
    /\ pc = "scanned"
    /\ candidates' = all_files
    /\ best_file' = select_best_source_file(all_files)
    /\ pc' = "selected"
    /\ UNCHANGED <<all_files, pattern_candidates, source_files>>
    /\ UNCHANGED <<kind, src, res, docvars, statvars, matchvars, extravars>>
    /\ UNCHANGED <<argv, disk, disk0, target_contents, done_count>>

\* gentxcfg.rs:146-176
IdentifySourceFiles ==
    /\ pc = "scanned"
    /\ LET found == identify_source_files(all_files) IN
       /\ pattern_candidates' = found.map
       /\ source_files' = found.source_files
    /\ pc' = "identified"
    /\ UNCHANGED <<all_files, candidates, best_file>>
    /\ UNCHANGED <<kind, src, res, docvars, statvars, matchvars, extravars>>
    /\ UNCHANGED <<argv, disk, disk0, target_contents, done_count>>

NextSelect == SelectBestSourceFile \/ IdentifySourceFiles

SpecSelect == InitSelect /\ [][NextSelect]_vars

\* ------------------------------------------------ language codes in a name
\* The file names find_language_codes_in_filename is tried on: a word, an
\* ending or none, an extension. "main" is too long for a code, "GB" is
\* not in lower case.
CodeEndings ==
    { << >> } \cup
    { << sep >> \o ending :
        sep \in {"_", "."},
        ending \in {en, en_US, <<"fr">>, <<"fr", "_", "GB">>, <<"ts">>, <<"po">>,
                    <<"main">>, <<"GB">>} }

CodeNames ==
    { << head >> \o ending \o <<".", ext>> :
        head \in {"app", "fr", "po"}, ending \in CodeEndings, ext \in {"ts", "po"} }

InitCodes ==
    /\ name_given \in CodeNames
    /\ codes_found = None
    /\ source_given = None
    /\ translation_expression = None
    /\ CfgIdle
    /\ TxIdle
    /\ StatsIdle
    /\ MatchIdle
    /\ SelectIdle
    /\ kind = None
    /\ src = NotLoaded
    /\ src0 = NotLoaded
    /\ file = NoFile
    /\ tgt = NotLoaded
    /\ pre = NotLoaded
    /\ res = Ok
    /\ op = "codes"
    /\ arg = None
    /\ argv = None
    /\ disk = None
    /\ disk0 = None
    /\ pc = "name"
    /\ target_contents = << >>
    /\ done_count = 0

\* gentxcfg.rs:559-589
FindLanguageCodes ==
    /\ pc = "name"
    /\ codes_found' = find_language_codes_in_filename(name_given)
    /\ pc' = "codes"
    /\ UNCHANGED <<name_given, source_given, translation_expression>>
    /\ UNCHANGED <<kind, src, res, docvars, statvars, matchvars, selectvars>>
    /\ UNCHANGED <<argv, disk, disk0, target_contents, done_count, cfgvars, txvars>>

NextCodes == FindLanguageCodes

SpecCodes == InitCodes /\ [][NextCodes]_vars

\* ------------------------------------------- generate_translation_expression
\* source_file.rfind('.') and split_at: "_<lang>" goes before the last dot.
InsertBeforeLastDot(text) ==
    LET dots == { n \in 1..Len(text) : text[n] = "." }
    IN IF dots = {} THEN text \o <<"_", LANG>>
       ELSE LET dot_pos == CHOOSE n \in dots : \A m \in dots : m <= n
            IN SubSeq(text, 1, dot_pos - 1) \o <<"_", LANG>>
                  \o SubSeq(text, dot_pos, Len(text))

\* The loop over the components: the first English one becomes <lang>.
ReplaceEnglishFolder(text) ==
    LET parts == components(text)
        hits == { n \in 1..Len(parts) : is_english_language_code(parts[n]) }
    IN IF hits = {} THEN NoPath
       ELSE LET i == CHOOSE n \in hits : \A m \in hits : n <= m
            IN SomePath(JoinPath([parts EXCEPT ![i] = << LANG >>]))

generate_translation_expression(text) ==
    IF Contains(text, <<"_", "en", "_", "US">>)
    THEN Replace(text, <<"_", "en", "_", "US">>, <<"_", LANG>>, 1)
    ELSE IF Contains(text, <<"_", "en", ".">>)
    THEN Replace(text, <<"_", "en", ".">>, <<"_", LANG, ".">>, 1)
    ELSE IF Contains(text, <<".", "en", ".">>)
    THEN Replace(text, <<".", "en", ".">>, <<".", LANG, ".">>, 1)
    ELSE IF EndsWith(text, <<"_", "en", ".", "ts">>)
    THEN Replace(text, <<"_", "en", ".", "ts">>, <<"_", LANG, ".", "ts">>, 1)
    ELSE IF EndsWith(text, <<"_", "en", ".", "po">>)
    THEN Replace(text, <<"_", "en", ".", "po">>, <<"_", LANG, ".", "po">>, 1)
    ELSE IF EndsWith(text, <<".", "en", ".", "ts">>)
    THEN Replace(text, <<".", "en", ".", "ts">>, <<".", LANG, ".", "ts">>, 1)
    ELSE IF EndsWith(text, <<".", "en", ".", "po">>)
    THEN Replace(text, <<".", "en", ".", "po">>, <<".", LANG, ".", "po">>, 1)
    ELSE IF ReplaceEnglishFolder(text).some
    THEN ReplaceEnglishFolder(text).path
    ELSE InsertBeforeLastDot(text)

\* The paths generate_translation_expression is given: a directory of the
\* project root or none, app, an ending or none, an extension; each of them
\* a file identify_source_files returns when it is the only file.
SourceFolders ==
    { << >>, <<"en", "/">>, <<"en", "_", "US", "/">>, <<"en", "_", "GB", "/">>,
      <<"fr", "/">>, <<"po", "/">>, <<"app", "_", "en", "_", "US", "/">> }

SourceEndings ==
    { << >>, <<"_", "en">>, <<"_", "en", "_", "US">>, <<"_", "en", "_", "GB">>,
      <<".", "en">>, <<".", "en", "_", "US">>, <<"_", "en", ".", "fr">> }

SourcePaths ==
    { p \in { folder \o <<"app">> \o ending \o <<".", ext>> :
                folder \in SourceFolders, ending \in SourceEndings,
                ext \in {"ts", "po"} } :
        identify_source_files(<< p >>).source_files = << p >> }

InitExpr ==
    /\ source_given \in SourcePaths
    /\ translation_expression = None
    /\ name_given = None
    /\ codes_found = None
    /\ CfgIdle
    /\ TxIdle
    /\ StatsIdle
    /\ MatchIdle
    /\ SelectIdle
    /\ kind = None
    /\ src = NotLoaded
    /\ src0 = NotLoaded
    /\ file = NoFile
    /\ tgt = NotLoaded
    /\ pre = NotLoaded
    /\ res = Ok
    /\ op = "expression"
    /\ arg = None
    /\ argv = None
    /\ disk = None
    /\ disk0 = None
    /\ pc = "source"
    /\ target_contents = << >>
    /\ done_count = 0

\* gentxcfg.rs:691-732
GenerateTranslationExpression ==
    /\ pc = "source"
    /\ translation_expression' = generate_translation_expression(source_given)
    /\ pc' = "expression"
    /\ UNCHANGED <<name_given, codes_found, source_given>>
    /\ UNCHANGED <<kind, src, res, docvars, statvars, matchvars, selectvars>>
    /\ UNCHANGED <<argv, disk, disk0, target_contents, done_count, cfgvars, txvars>>

NextExpr == GenerateTranslationExpression

SpecExpr == InitExpr /\ [][NextExpr]_vars

\* --------------------------------------------------------- TransifexYaml
\* yaml_file.rs:62-76 and 14-27: a filter of transifex.yaml, the file itself
\* and one entry of the table of resources linked on Transifex.
Filter(source, format, source_lang, target_pattern_) ==
    [type_attr |-> "file", source |-> source, format |-> format,
     source_lang |-> source_lang, target_pattern |-> target_pattern_]

TransifexYaml(filters) ==
    [filters |-> filters,
     settings |-> [branch_template |-> "transifex_update_<br_unique_id>"]]

TxResourceLookupEntry(repository, resource, transifex_resource_id) ==
    [repository |-> repository, branch |-> "master", resource |-> resource,
     transifex_resource_id |-> transifex_resource_id]

\* Mutant of UnknownSlug: the count is left out of the slug.
UnknownSlug_without_count(unknown_count) ==
    <<"o:unknown-org:p:unknown-proj:r:unknown-res", 1>>

\* yaml_file.rs:52: the slug of the unknown_count-th unresolved filter.
UnknownSlug(unknown_count) ==
    <<"o:unknown-org:p:unknown-proj:r:unknown-res", unknown_count>>

\* lookup_table.iter().find(..): the index of the first entry of the same
\* repository and resource, 0 when there is none.
FindLookupEntry(lookup, repository, source) ==
    LET hits == { n \in 1..Len(lookup) :
                    lookup[n].repository = repository /\ lookup[n].resource = source }
    IN IF hits = {} THEN 0 ELSE CHOOSE n \in hits : \A m \in hits : n <= m

\* The loop of to_tx_config from filter n on, unknown_count being the number
\* of unresolved filters before it.
RECURSIVE ResourceSections(_, _, _, _, _)
ResourceSections(filters, repository, lookup, n, unknown_count) ==
    IF n > Len(filters)
    THEN << >>
    ELSE LET filter == filters[n]
             found == FindLookupEntry(lookup, repository, filter.source)
             count == IF found = 0 THEN unknown_count + 1 ELSE unknown_count
             resource_section ==
                [source_file |-> filter.source,
                 source_lang |-> filter.source_lang,
                 type_attr |-> filter.format,
                 file_filter |-> filter.target_pattern,
                 resource_full_slug |->
                    IF found = 0 THEN UnknownSlug(count)
                    ELSE lookup[found].transifex_resource_id]
         IN << resource_section >>
               \o ResourceSections(filters, repository, lookup, n + 1, count)

\* TransifexYaml::to_tx_config
to_tx_config(yaml, repository, lookup) ==
    [main_section |-> [host |-> "https://www.transifex.com"],
     resource_sections |-> ResourceSections(yaml.filters, repository, lookup, 1, 0)]

\* The filters, repositories and linked resources of the conversions.
MaxFilters == 3
MaxLookup == 2

FilterPool ==
    { Filter(source, format, source_lang, generate_translation_expression(source)) :
        source \in { <<"app", ".", "ts">>, <<"app", "_", "en", ".", "po">> },
        format \in {"QT", "PO"},
        source_lang \in {"en_US", "zh_CN"} }

Repositories == {"user/repo", "other/repo"}

LookupPool ==
    { TxResourceLookupEntry(repository, resource, transifex_resource_id) :
        repository \in Repositories,
        resource \in { <<"app", ".", "ts">>, <<"app", "_", "en", ".", "po">> },
        transifex_resource_id \in {"o:org:p:proj:r:one", "o:org:p:proj:r:two"} }

InitTx ==
    /\ tx_yaml \in { TransifexYaml(filters) :
                       filters \in UNION { [1..n -> FilterPool] : n \in 0..MaxFilters } }
    /\ github_repository \in {"user/repo", ""}
    /\ lookup_table \in UNION { [1..n -> LookupPool] : n \in 0..MaxLookup }
    /\ tx_config = None
    /\ pc = "yaml"
    /\ op = "tx"
    /\ kind = None /\ src = NotLoaded /\ src0 = NotLoaded /\ file = NoFile
    /\ tgt = NotLoaded /\ pre = NotLoaded /\ res = Ok /\ arg = None
    /\ argv = None /\ disk = None /\ disk0 = None
    /\ target_contents = << >> /\ done_count = 0
    /\ StatsIdle /\ MatchIdle /\ SelectIdle /\ CodeIdle /\ CfgIdle

\* tx_yaml.to_tx_config(github_repository, lookup_table)
ToTxConfig ==
    /\ pc = "yaml"
    /\ tx_config' = to_tx_config(tx_yaml, github_repository, lookup_table)
    /\ pc' = "config"
    /\ UNCHANGED <<tx_yaml, github_repository, lookup_table>>
    /\ UNCHANGED <<kind, src, src0, file, tgt, pre, res, op, arg>>
    /\ UNCHANGED <<argv, disk, disk0, target_contents, done_count>>
    /\ UNCHANGED <<statvars, matchvars, selectvars, codevars, cfgvars>>

NextTx == ToTxConfig

SpecTx == InitTx /\ [][NextTx]_vars

\* ------------------------------------------- the config-generating commands
\* gentxcfg.rs:650-689: one filter per source file, source language en_US.
generate_transifex_yaml(translation_files) ==
    TransifexYaml(
        [ n \in 1..Len(translation_files) |->
            Filter(translation_files[n],
                   IF extension(file_name(translation_files[n])) = <<"ts">>
                   THEN "QT" ELSE "PO",
                   "en_US",
                   generate_translation_expression(translation_files[n])) ])

\* TxConfig::to_transifex_yaml: one filter per resource section.
to_transifex_yaml(config) ==
    TransifexYaml(
        [ n \in 1..Len(config.resource_sections) |->
            Filter(config.resource_sections[n].source_file,
                   config.resource_sections[n].type_attr,
                   config.resource_sections[n].source_lang,
                   config.resource_sections[n].file_filter) ])

\* monotxconfig.rs:15-37: one section per linked resource of the organization.
MonoTargetFile(source_file) ==
    IF Contains(source_file, <<"_", "en", "_", "US">>)
    THEN Replace(source_file, <<"_", "en", "_", "US">>, <<"_", LANG>>, 1)
    ELSE IF Contains(source_file, <<"_", "en">>)
    THEN Replace(source_file, <<"_", "en">>, <<"_", LANG>>, 1)
    ELSE InsertBeforeLastDot(source_file)

mono_tx_config(linked_resources) ==
    [main_section |-> [host |-> "https://www.transifex.com"],
     resource_sections |->
        [ n \in 1..Len(linked_resources) |->
            LET resource == linked_resources[n] IN
            [source_file |-> <<resource.repository, "/">> \o resource.resource,
             source_lang |-> "en_US",
             type_attr |-> IF EndsWith(resource.resource, <<".", "po">>)
                           THEN "PO" ELSE "QT",
             file_filter |-> <<resource.repository, "/">>
                                \o MonoTargetFile(resource.resource),
             resource_full_slug |-> resource.transifex_resource_id] ]]

\* The text of a transifex.yaml (serde_yml::to_string) and of a .tx/config
\* (TxConfig::to_str), and a directory of the project tree.
YamlText(yaml) == [text |-> "yaml", value |-> yaml]
ConfigText(config) == [text |-> "ini", value |-> config]
Dir == [file |-> "directory"]

\* Path::exists and Path::is_file
exists(files, path) == files[path] # NoFile
is_file(files, path) == files[path] \notin {NoFile, Dir}

\* try_load_transifex_yaml_file: transifex.yaml of the project root, then
\* .tx/transifex.yaml.
try_load_transifex_yaml_file(files) ==
    LET found == IF is_file(files, "transifex.yaml") THEN "transifex.yaml"
                 ELSE IF is_file(files, ".tx/transifex.yaml") THEN ".tx/transifex.yaml"
                 ELSE "" IN
    IF found = "" THEN [res |-> Err("LoadTxYaml", None, 0, 0), path |-> "", yaml |-> None]
    ELSE IF files[found] = Garbage
    THEN [res |-> Err("LoadTxYaml", None, 0, 0), path |-> found, yaml |-> None]
    ELSE [res |-> Ok, path |-> found, yaml |-> files[found].value]

\* try_load_tx_config_file: .tx/config of the project root.
try_load_tx_config_file(files) ==
    IF ~is_file(files, ".tx/config") \/ files[".tx/config"] = Garbage
    THEN [res |-> Err("LoadTxConfig", None, 0, 0), path |-> "", config |-> None]
    ELSE [res |-> Ok, path |-> ".tx/config", config |-> files[".tx/config"].value]

\* Mutant of write_unless_exists: the file is written whether it exists or
\* not.
write_always(files, output_path, content) ==
    [tree |-> [files EXCEPT ![".tx"] = Dir, ![output_path] = content],
     printed |-> << >>]

\* The end of each command: an existing destination is left alone and the
\* content printed, a missing one is written, its directory created first
\* (gentxcfg.rs:60-67 and 71-79, yaml2txconfig.rs:133-143,
\* monotxconfig.rs:47-57, txconfig2yaml.rs:23-30).
write_unless_exists(files, output_path, content) ==
    IF exists(files, output_path)
    THEN [tree |-> files, printed |-> << content >>]
    ELSE [tree |-> [files EXCEPT ![".tx"] = Dir, ![output_path] = content],
          printed |-> << >>]

\* The project trees: a directory .tx that is missing or holds a
\* transifex.yaml and a config that are missing, unreadable or readable, and
\* the same for the transifex.yaml of the project root.
OldYamlTexts ==
    { Garbage,
      YamlText(generate_transifex_yaml(<< <<"old", ".", "ts">> >>)) }

OldConfigTexts ==
    { Garbage,
      ConfigText(to_tx_config(generate_transifex_yaml(<< <<"old", ".", "ts">> >>),
                              "", << >>)) }

Trees ==
    { [ p \in {"transifex.yaml", ".tx", ".tx/transifex.yaml", ".tx/config"} |->
          CASE p = "transifex.yaml" -> root
            [] p = ".tx" -> IF tx THEN Dir ELSE NoFile
            [] p = ".tx/transifex.yaml" -> IF tx THEN yaml ELSE NoFile
            [] p = ".tx/config" -> IF tx THEN config ELSE NoFile ] :
        root \in {NoFile} \cup OldYamlTexts,
        tx \in BOOLEAN,
        yaml \in {NoFile} \cup OldYamlTexts,
        config \in {NoFile} \cup OldConfigTexts }

\* What scan_all_translation_files found.
ScanLists ==
    { << >>,
      << <<"app", "_", "fr", ".", "ts">> >>,
      << <<"app", ".", "ts">>, <<"app", "_", "fr", ".", "ts">> >>,
      << <<"app", "_", "en", ".", "po">>, <<"app", ".", "ts">> >> }

LinkedResources ==
    { << >>,
      << TxResourceLookupEntry("user/repo", <<"app", ".", "ts">>, "o:org:p:proj:r:one") >> }

Commands ==
    { [name |-> "gentxcfg", format |-> f, scanned |-> s] :
         f \in {"yaml", "txconfig"}, s \in ScanLists }
    \cup { [name |-> "yaml2txconfig", github_repository |-> "user/repo", linked |-> l] :
             l \in LinkedResources }
    \cup { [name |-> "monotxconfig", linked |-> l] : l \in LinkedResources }
    \cup { [name |-> "txconfig2yaml"] }

InitConfig ==
    /\ command \in Commands
    /\ tree \in Trees
    /\ tree0 = tree
    /\ printed = << >>
    /\ pc = "command"
    /\ op = "config"
    /\ res = Ok
    /\ kind = None /\ src = NotLoaded /\ src0 = NotLoaded /\ file = NoFile
    /\ tgt = NotLoaded /\ pre = NotLoaded /\ arg = None
    /\ argv = None /\ disk = None /\ disk0 = None
    /\ target_contents = << >> /\ done_count = 0
    /\ StatsIdle /\ MatchIdle /\ SelectIdle /\ CodeIdle /\ TxIdle

ConfigFrame ==
    /\ pc' = "done"
    /\ UNCHANGED <<command, tree0>>
    /\ UNCHANGED <<kind, src, src0, file, tgt, pre, op, arg>>
    /\ UNCHANGED <<argv, disk, disk0, target_contents, done_count>>
    /\ UNCHANGED <<statvars, matchvars, selectvars, codevars, txvars>>

\* subcmd_gentxcfg, gentxcfg.rs:23-84.
SubcmdGentxcfg ==
    /\ pc = "command" /\ command.name = "gentxcfg"
    /\ \E found \in { identify_source_files(command.scanned).source_files } :
       \E yaml \in { generate_transifex_yaml(found) } :
          LET with_dir == [tree EXCEPT ![".tx"] = Dir]
              out == IF command.format = "yaml"
                     THEN write_unless_exists(with_dir, ".tx/transifex.yaml",
                                              YamlText(yaml))
                     ELSE write_unless_exists(with_dir, ".tx/config",
                                              ConfigText(to_tx_config(yaml, "", << >>)))
          IN IF command.scanned = << >> \/ found = << >>
             THEN UNCHANGED <<tree, printed>>
             ELSE tree' = out.tree /\ printed' = out.printed
    /\ res' = Ok
    /\ ConfigFrame

\* subcmd_yaml2txconfig, yaml2txconfig.rs:123-146.
SubcmdYaml2txconfig ==
    /\ pc = "command" /\ command.name = "yaml2txconfig"
    /\ LET loaded == try_load_transifex_yaml_file(tree) IN
       IF loaded.res.tag # "Ok"
       THEN res' = loaded.res /\ UNCHANGED <<tree, printed>>
       ELSE LET out == write_unless_exists(
                          tree, ".tx/config",
                          ConfigText(to_tx_config(loaded.yaml, command.github_repository,
                                                  command.linked)))
            IN res' = Ok /\ tree' = out.tree /\ printed' = out.printed
    /\ ConfigFrame

\* subcmd_monotxconfig, monotxconfig.rs:11-58.
SubcmdMonotxconfig ==
    /\ pc = "command" /\ command.name = "monotxconfig"
    /\ LET out == write_unless_exists(tree, ".tx/config",
                                      ConfigText(mono_tx_config(command.linked)))
       IN tree' = out.tree /\ printed' = out.printed
    /\ res' = Ok
    /\ ConfigFrame

\* subcmd_txconfig2yaml, txconfig2yaml.rs:19-33.
SubcmdTxconfig2yaml ==
    /\ pc = "command" /\ command.name = "txconfig2yaml"
    /\ LET loaded == try_load_tx_config_file(tree) IN
       IF loaded.res.tag # "Ok"
       THEN res' = loaded.res /\ UNCHANGED <<tree, printed>>
       ELSE LET out == write_unless_exists(tree, ".tx/transifex.yaml",
                                           YamlText(to_transifex_yaml(loaded.config)))
            IN res' = Ok /\ tree' = out.tree /\ printed' = out.printed
    /\ ConfigFrame

NextConfig ==
    SubcmdGentxcfg \/ SubcmdYaml2txconfig \/ SubcmdMonotxconfig \/ SubcmdTxconfig2yaml

SpecConfig == InitConfig /\ [][NextConfig]_vars

\* ------------------------------------------------ vocabulary of the claims
TsPositions(doc) ==
    UNION { { <<i, j>> : j \in 1..Len(doc.contexts[i].messages) } : i \in 1..Len(doc.contexts) }

TsAt(doc, p) == doc.contexts[p[1]].messages[p[2]]

TsAligned(s, t) ==
    /\ Len(s.contexts) = Len(t.contexts)
    /\ \A i \in 1..Len(s.contexts) :
         Len(s.contexts[i].messages) = Len(t.contexts[i].messages)

PoAligned(s, t) == Len(s.messages) = Len(t.messages)

Aligned(k, s, t) == IF k = "ts" THEN TsAligned(s, t) ELSE PoAligned(s, t)

\* convert(text, language) of the specification; None where the language
\* code is not one the converter supports.
Convert(text, language) == zhconv_wrapper(text, language).text

Supported(language) == ParseVariant(correct_language_code(language)).ok

\* The Linguist decision table: the target is Unfinished, the source is not,
\* and the source has a text.
TsQualifies(t, s) ==
    /\ t.type_attr = "Unfinished"
    /\ s.type_attr # "Unfinished"
    /\ s.value # None

\* Context names, language and version, the fields propagation never owns.
TsSameShell(a, b) ==
    /\ a.language = b.language
    /\ a.version = b.version
    /\ Len(a.contexts) = Len(b.contexts)
    /\ \A i \in 1..Len(a.contexts) :
         /\ a.contexts[i].name = b.contexts[i].name
         /\ Len(a.contexts[i].messages) = Len(b.contexts[i].messages)

TsDecisionTable ==
    /\ src = src0
    /\ TsSameShell(pre, tgt)
    /\ \A p \in TsPositions(pre) :
         LET t == TsAt(pre, p)
             s == TsAt(src, p)
             u == TsAt(tgt, p)
         IN /\ (u # t) <=> TsQualifies(t, s)
            /\ TsQualifies(t, s) =>
                 u = [t EXCEPT !.value = Convert(s.value, pre.language),
                               !.type_attr = None]

\* C1 (as claimed): Linguist propagation onto an aligned target changes the
\* entry at (i,j) exactly when the target entry is Unfinished, the source
\* entry is not and the source has a text; a changed entry gets the converted
\* text and becomes Finished; nothing else of the target and nothing of the
\* source changes.
C1_Original ==
    (kind = "ts" /\ op = "propagate" /\ TsAligned(src, pre)) => TsDecisionTable

\* C1 (amended): the same decision table, for the calls that return Ok.
C1_Amended ==
    (kind = "ts" /\ op = "propagate" /\ TsAligned(src, pre) /\ res.tag = "Ok")
        => TsDecisionTable

\* An Ok propagation over two contexts that fills one entry and leaves
\* another one as it was.
C1_Witness ==
    /\ kind = "ts" /\ op = "propagate" /\ res.tag = "Ok"
    /\ TsAligned(src, pre)
    /\ \E p, q \in TsPositions(pre) :
         /\ p[1] # q[1]
         /\ TsQualifies(TsAt(pre, p), TsAt(src, p))
         /\ TsAt(tgt, p).value = Hant
         /\ ~TsQualifies(TsAt(pre, q), TsAt(src, q))
         /\ TsAt(pre, q).type_attr = "Unfinished"

\* The Gettext decision table's skip condition.
PoSkipped(t, s) ==
    \/ is_translated(t)
    \/ ~is_translated(s)
    \/ t.is_plural
    \/ s.is_plural

\* C2: Gettext propagation onto an aligned target never panics, leaves every
\* skipped entry (target translated, source untranslated, or either one
\* plural) unchanged, and sets every other entry to the converted msgstr of
\* the source, which makes it translated (the fill is stated for the calls
\* that return Ok).
C2_Claim ==
    (kind = "po" /\ op = "propagate" /\ PoAligned(src, pre)) =>
        /\ res.tag # "Panic"
        /\ Len(tgt.messages) = Len(pre.messages)
        /\ \A k \in 1..Len(pre.messages) :
             LET t == pre.messages[k]
                 s == src.messages[k]
                 u == tgt.messages[k]
             IN IF PoSkipped(t, s)
                THEN u = t
                ELSE res.tag = "Ok" =>
                        /\ u = set_msgstr(t, Convert(s.msgstr, pre.language))
                        /\ is_translated(u)

\* The first context whose message count differs (0 when there is none).
FirstMismatch(s, t) ==
    LET bad == { i \in 1..Len(t.contexts) :
                   Len(s.contexts[i].messages) # Len(t.contexts[i].messages) }
    IN IF bad = {} THEN 0 ELSE CHOOSE i \in bad : \A k \in bad : i <= k

C5_Original ==
    (op = "propagate" /\ res.tag = "Ok") =>
        IF kind = "ts"
        THEN \A p \in TsPositions(pre) :
                (TsAt(pre, p).type_attr = "Unfinished" /\ TsAt(src, p).type_attr = None)
                    => /\ TsAt(tgt, p).type_attr = None
                       /\ TsAt(tgt, p).value = Convert(TsAt(src, p).value, pre.language)
        ELSE \A k \in 1..Len(pre.messages) :
                (~is_translated(pre.messages[k]) /\ is_translated(src.messages[k]))
                    => /\ is_translated(tgt.messages[k])
                       /\ tgt.messages[k].msgstr
                            = Convert(src.messages[k].msgstr, pre.language)

\* C5 (amended): the same for the source entries that are Finished and have
\* a translated text, the Gettext target entry being singular.
C5_Amended ==
    (op = "propagate" /\ res.tag = "Ok") =>
        IF kind = "ts"
        THEN \A p \in TsPositions(pre) :
                (/\ TsAt(pre, p).type_attr = "Unfinished"
                 /\ TsAt(src, p).type_attr = None
                 /\ TsAt(src, p).value # None)
                    => /\ TsAt(tgt, p).type_attr = None
                       /\ TsAt(tgt, p).value = Convert(TsAt(src, p).value, pre.language)
        ELSE \A k \in 1..Len(pre.messages) :
                (/\ ~is_translated(pre.messages[k])
                 /\ is_translated(src.messages[k])
                 /\ ~pre.messages[k].is_plural)
                    => /\ is_translated(tgt.messages[k])
                       /\ tgt.messages[k].msgstr
                            = Convert(src.messages[k].msgstr, pre.language)

\* An Ok Linguist propagation in which an Unfinished entry met a Finished
\* source entry with a text and took its traditional spelling.
C5_Witness ==
    /\ kind = "ts" /\ op = "propagate" /\ res.tag = "Ok"
    /\ \E p \in TsPositions(pre) :
         /\ TsAt(pre, p).type_attr = "Unfinished"
         /\ TsAt(src, p).type_attr = None
         /\ TsAt(src, p).value = Hans
         /\ TsAt(tgt, p).type_attr = None
         /\ TsAt(tgt, p).value = Hant

\* The document an operation started from: the reference for the bootstrap
\* of a missing file, the target before the call otherwise.
Before == IF op = "load" THEN (IF file = NoFile THEN src ELSE file) ELSE pre

\* C6: no operation (bootstrap clear, propagation) changes the translated
\* text or the status of a plural entry, in either format.
C6_Claim ==
    (op \in {"load", "clear", "propagate"} /\ tgt # NotLoaded) =>
        IF kind = "ts"
        THEN \A p \in TsPositions(Before) :
                TsAt(Before, p).numerus # None
                    => /\ TsAt(tgt, p).type_attr = TsAt(Before, p).type_attr
                       /\ TsAt(tgt, p).value = TsAt(Before, p).value
                       /\ TsAt(tgt, p).numerus_forms = TsAt(Before, p).numerus_forms
        ELSE \A k \in 1..Len(Before.messages) :
                Before.messages[k].is_plural => tgt.messages[k] = Before.messages[k]

\* Same groups and entries in the same order: everything but language,
\* status and translated text agrees.
SameEntries(k, a, b) ==
    IF k = "ts"
    THEN /\ a.version = b.version
         /\ Len(a.contexts) = Len(b.contexts)
         /\ \A i \in 1..Len(a.contexts) :
              /\ a.contexts[i].name = b.contexts[i].name
              /\ Len(a.contexts[i].messages) = Len(b.contexts[i].messages)
         /\ \A p \in TsPositions(a) :
              /\ TsAt(a, p).source = TsAt(b, p).source
              /\ TsAt(a, p).location = TsAt(b, p).location
              /\ TsAt(a, p).comment = TsAt(b, p).comment
              /\ TsAt(a, p).numerus = TsAt(b, p).numerus
              /\ TsAt(a, p).numerus_forms = TsAt(b, p).numerus_forms
    ELSE /\ Len(a.messages) = Len(b.messages)
         /\ \A n \in 1..Len(a.messages) :
              /\ a.messages[n].msgid = b.messages[n].msgid
              /\ a.messages[n].msgctxt = b.messages[n].msgctxt
              /\ a.messages[n].is_plural = b.messages[n].is_plural

\* The load of an existing path: the file's document, the reference ignored.
LoadsTheFile ==
    /\ file = Garbage => (res.tag # "Ok" /\ tgt = NotLoaded)
    /\ file \notin {NoFile, Garbage} => (res.tag = "Ok" /\ tgt = file)

\* C7 (as claimed): on a missing path the load succeeds with the entries of
\* the reference in order, the fallback language, and every entry that was
\* Finished in the reference Unfinished without text; the reference is not
\* modified; an existing path is loaded from the file.
C7_Original ==
    op = "load" =>
        /\ src = src0
        /\ LoadsTheFile
        /\ file = NoFile =>
             /\ res.tag = "Ok"
             /\ tgt.language = arg
             /\ SameEntries(kind, src, tgt)
             /\ IF kind = "ts"
                THEN \A p \in TsPositions(src) :
                        TsAt(src, p).type_attr = None
                            => /\ TsAt(tgt, p).type_attr = "Unfinished"
                               /\ TsAt(tgt, p).value = None
                ELSE \A k \in 1..Len(src.messages) :
                        is_translated(src.messages[k])
                            => /\ ~is_translated(tgt.messages[k])
                               /\ tgt.messages[k].msgstr = ""

\* C7 (amended): as claimed, the cleared Gettext entries being the translated
\* entries that are not plural (a translated plural entry stays translated).
C7_Amended ==
    op = "load" =>
        /\ src = src0
        /\ LoadsTheFile
        /\ file = NoFile =>
             /\ res.tag = "Ok"
             /\ tgt.language = arg
             /\ SameEntries(kind, src, tgt)
             /\ IF kind = "ts"
                THEN \A p \in TsPositions(src) :
                        TsAt(src, p).type_attr = None
                            => /\ TsAt(tgt, p).type_attr = "Unfinished"
                               /\ TsAt(tgt, p).value = None
                ELSE \A k \in 1..Len(src.messages) :
                        (is_translated(src.messages[k]) /\ ~src.messages[k].is_plural)
                            => /\ ~is_translated(tgt.messages[k])
                               /\ tgt.messages[k].msgstr = ""

\* The bootstrap of a missing Linguist target from a reference with a
\* Finished entry that has a text, next to an Obsolete one.
C7_Witness ==
    /\ kind = "ts" /\ op = "load" /\ file = NoFile /\ arg = "zh_TW"
    /\ \E p, q \in TsPositions(src) :
         /\ TsAt(src, p).type_attr = None /\ TsAt(src, p).value = Hans
         /\ TsAt(tgt, p).type_attr = "Unfinished"
         /\ TsAt(src, q).type_attr = "Obsolete"

\* C8: in a Linguist document a Vanished or Obsolete entry keeps its status
\* and text through every clear and every propagation, and the only status
\* change a propagation makes is Unfinished -> Finished.
C8_Theorem ==
    (kind = "ts" /\ op \in {"clear", "propagate"}) =>
        /\ TsSameShell(pre, tgt)
        /\ \A p \in TsPositions(pre) :
             LET t == TsAt(pre, p)
                 u == TsAt(tgt, p)
             IN /\ t.type_attr \in {"Vanished", "Obsolete"}
                    => (u.type_attr = t.type_attr /\ u.value = t.value)
                /\ (op = "propagate" /\ u.type_attr # t.type_attr)
                    => (t.type_attr = "Unfinished" /\ u.type_attr = None)

\* A clear that met an Obsolete entry with a text whose source entry is
\* Finished, in a document that also had a Finished entry to clear.
C8_Witness ==
    /\ kind = "ts" /\ op = "clear"
    /\ TsAligned(src, pre)
    /\ \E p, q \in TsPositions(pre) :
         /\ TsAt(pre, p).type_attr = "Obsolete" /\ TsAt(pre, p).value = Hans
         /\ TsAt(src, p).type_attr = None /\ TsAt(src, p).value = Hans
         /\ TsAt(pre, q).type_attr = None
         /\ TsAt(tgt, q).type_attr = "Unfinished"

NoUnfinished(k, doc) ==
    IF k = "ts"
    THEN \A p \in TsPositions(doc) : TsAt(doc, p).type_attr # "Unfinished"
    ELSE \A n \in 1..Len(doc.messages) : is_translated(doc.messages[n])

\* C9: a propagation into a target without Unfinished (untranslated) entry
\* leaves it unchanged, and a propagation that follows a propagation of the
\* same source onto an aligned target leaves the document as the first one
\* left it.
C9_Theorem ==
    [][ (op' = "propagate" /\ op \in {"lang", "propagate", "clear"}) =>
          /\ NoUnfinished(kind, tgt) => tgt' = tgt
          /\ (op = "propagate" /\ Aligned(kind, src, pre)) => tgt' = tgt ]_vars

\* A second propagation has run on a Linguist target read from a file: the
\* entry the first one filled is still as it was filled.
C9_Witness ==
    /\ kind = "ts" /\ op = "propagate" /\ res.tag = "Ok"
    /\ pre = tgt
    /\ file \notin {NoFile, Garbage}
    /\ TsAligned(src, file)
    /\ \E p \in TsPositions(tgt) :
         /\ TsQualifies(TsAt(file, p), TsAt(src, p))
         /\ TsAt(tgt, p).type_attr = None
         /\ TsAt(tgt, p).value = Hant

\* The run has ended on the propagation of a target with a structural
\* mismatch; the target is the one after the last one saved.
MismatchEnded ==
    /\ pc = "done"
    /\ res.tag \in {"DifferentContexts", "DifferentMessages"}

FailedTarget == target_contents[done_count + 1]

LoadEnded ==
    /\ pc = "done"
    /\ res.tag \in {"LoadTsTargetFile", "LoadPoTargetFile"}

\* C4: when the batch ends because propagation onto a target returned
\* DifferentContexts or DifferentMessages, the file of that target is on disk
\* what it was before the invocation: neither created nor rewritten.
C4_Theorem ==
    MismatchEnded => disk[FailedTarget.path] = disk0[FailedTarget.path]

\* The second target of a batch fails with a structural mismatch after the
\* first one has been saved; the file of the failing target held a document.
C4_Witness ==
    /\ MismatchEnded
    /\ done_count = 1
    /\ disk # disk0
    /\ disk0[FailedTarget.path] \notin {NoFile, Garbage}

\* C10: no conversion or save happens before every target of the batch has
\* been loaded or bootstrapped: while targets are being loaded the disk is as
\* the invocation found it, the second pass starts with all targets loaded,
\* and a batch that ends on a failed target load has written or created no
\* file.
C10_Theorem ==
    /\ pc \in {"start", "load"} => (disk = disk0 /\ done_count = 0)
    /\ pc = "convert" => Len(target_contents) = Len(argv.target_languages)
    /\ LoadEnded => (disk = disk0 /\ done_count = 0)

\* The second target of a batch fails to load after the first one, whose file
\* was missing, has been bootstrapped in memory.
C10_Witness ==
    /\ LoadEnded
    /\ Len(target_contents) = 1
    /\ disk0[target_contents[1].path] = NoFile
    /\ target_contents[1].content # NotLoaded

\* The second pass has ended on a failure: every target had been loaded.
ConvertFailed ==
    /\ pc = "done"
    /\ res.tag # "Ok"
    /\ Len(target_contents) = Len(argv.target_languages)

NoRollback ==
    /\ \A m \in 1..done_count :
         disk[target_contents[m].path] = target_contents[m].content
    /\ disk[FailedTarget.path] \in {disk0[FailedTarget.path], Garbage}
    /\ \A m \in (done_count + 2)..Len(target_contents) :
         disk[target_contents[m].path] = disk0[target_contents[m].path]

DistinctTargets ==
    \A m, n \in 1..Len(argv.target_languages) :
        argv.target_languages[m] = argv.target_languages[n] => m = n

C12_Claim ==
    (/\ ConvertFailed
     /\ res.tag \in {"DifferentContexts", "DifferentMessages",
                     "ParseLanguageCode", "MissingLanguageCode"}) =>
        \A m \in (done_count + 2)..Len(target_contents) :
            LET out == translate_content_based_on(kind, target_contents[m].content, src)
            IN out.res.tag = "Ok" => disk[target_contents[m].path] = out.doc

\* C13: a target whose language is not one the converter supports and that
\* is aligned with the source is never saved, and the command ends on it
\* with ParseLanguageCode, whether or not an entry qualifies for filling.
C13_Claim ==
    (pc \in {"convert", "done"} /\ Len(target_contents) = Len(argv.target_languages)) =>
        \A m \in 1..Len(target_contents) :
            (/\ ~Supported(target_contents[m].content.language)
             /\ Aligned(kind, src, target_contents[m].content)) =>
                /\ m > done_count
                /\ (pc = "done" /\ m = done_count + 1) => res.tag = "ParseLanguageCode"

TsCountOf(doc, type_attr) ==
    Cardinality({ p \in TsPositions(doc) : TsAt(doc, p).type_attr = type_attr })

PoIndexes(doc) == 1..Len(doc.messages)

C15_Theorem ==
    (pc = "stats" /\ op \in {"count", "sum"}) =>
        LET percentage == completeness_percentage(stats)
            total == shown_translated(stats) + shown_unfinished(stats)
        IN /\ shown_translated(stats) = stats.finished
           /\ shown_unfinished(stats) = stats.unfinished + stats.fuzzy
           /\ shown_obsolete(stats) = stats.obsolete + stats.vanished
           /\ total = 0 => percentage.num = 0
           /\ total # 0 =>
                percentage.num * total = stats.finished * 100 * percentage.den
           /\ percentage.den > 0
           /\ 0 <= percentage.num /\ percentage.num <= 100 * percentage.den
           /\ \A v, o \in 0..MaxStatTotal :
                completeness_percentage([stats EXCEPT !.vanished = v, !.obsolete = o])
                    = percentage

\* Summed statistics with finished, unfinished, fuzzy and obsolete entries
\* whose percentage is not a whole number.
C15_Witness ==
    /\ pc = "stats" /\ op = "sum"
    /\ stats.finished > 0 /\ stats.unfinished > 0 /\ stats.fuzzy > 0
    /\ stats.obsolete + stats.vanished > 0
    /\ completeness_percentage(stats).den # 1

\* A language code as the templates mean it: 2 to 6 letters or underscores.
IsLangCode(text) ==
    /\ Len(text) >= 2 /\ Len(text) <= 6
    /\ \A n \in 1..Len(text) : text[n] \in LangCodeChars

TemplateName == target_pattern[Len(target_pattern)]

LangCount(text) == Cardinality({ n \in 1..Len(text) : text[n] = LANG })

LangPosition(text) == CHOOSE n \in 1..Len(text) : text[n] = LANG

FilenameMode == LangCount(TemplateName) = 1

DirectoryMode ==
    /\ LangCount(TemplateName) = 0
    /\ \E n \in 1..Len(target_pattern) : target_pattern[n] = << LANG >>

ReadCompletely ==
    /\ directory.readable
    /\ \A n \in 1..Len(directory.entries) : ~directory.entries[n].err

PairsOf(result) == { result.files[n] : n \in 1..Len(result.files) }

\* The pairs the filename mode is to return: an entry whose name is the
\* text before <lang>, a language code and the text after <lang>.
FilenamePairs ==
    LET prefix == SubSeq(TemplateName, 1, LangPosition(TemplateName) - 1)
        suffix == SubSeq(TemplateName, LangPosition(TemplateName) + 1, Len(TemplateName))
        parent_dir == SubSeq(target_pattern, 1, Len(target_pattern) - 1)
        Code(name) == SubSeq(name, Len(prefix) + 1, Len(name) - Len(suffix))
        Fits(name) ==
            /\ Len(name) >= Len(prefix) + Len(suffix)
            /\ IsLangCode(Code(name))
            /\ name = prefix \o Code(name) \o suffix
    IN { <<Code(directory.entries[n].name), Append(parent_dir, directory.entries[n].name)>> :
           n \in { m \in 1..Len(directory.entries) : Fits(directory.entries[m].name) } }

\* C16: in filename mode match_target_files returns one pair (code,
\* parent_dir/name) for each entry of the parent_dir directory whose name is the
\* text before <lang>, a code of 2 to 6 characters of [A-Za-z_] and the text
\* after <lang>, and nothing else; the characters of the template stand for
\* themselves.
C16_Theorem ==
    (pc = "matched" /\ FilenameMode /\ ReadCompletely) =>
        /\ matched_files.ok
        /\ PairsOf(matched_files) = FilenamePairs
        /\ Len(matched_files.files) = Cardinality(FilenamePairs)

\* A directory with a name that fits a.<lang>.t with a code of 6 characters
\* and a name that differs from it where the template has its dot: one pair.
C16_Witness ==
    /\ pc = "matched" /\ FilenameMode /\ ReadCompletely
    /\ TemplateName = <<"a", ".", LANG, ".", "t">>
    /\ \E n, m \in 1..Len(directory.entries) :
         /\ directory.entries[n].name = <<"a", ".">> \o Run("z", 6) \o <<".", "t">>
         /\ directory.entries[m].name = <<"a", "b", "z", "z", ".", "t">>
    /\ matched_files.files =
         << <<Run("z", 6),
              << <<"d">>, <<"a", ".">> \o Run("z", 6) \o <<".", "t">> >> >> >>

\* The pairs the directory mode is to return: a child whose whole name is a
\* language code and under which the rest of the template is a file.
DirectoryPairs ==
    LET at == LangComponent(target_pattern)
        prefix_dir == SubSeq(target_pattern, 1, at - 1)
        suffix == SubSeq(target_pattern, at + 1, Len(target_pattern))
    IN { <<directory.entries[n].name,
           Append(prefix_dir, directory.entries[n].name) \o suffix>> :
           n \in { m \in 1..Len(directory.entries) :
                     /\ ~directory.entries[m].err
                     /\ IsLangCode(directory.entries[m].name)
                     /\ directory.entries[m].has_file } }

\* C17: in directory mode match_target_files returns the pair (child,
\* prefix_dir/child/suffix) exactly for the children whose whole name is 2 to
\* 6 characters of [A-Za-z_] and under which the suffix is a file; a child of
\* another shape is never returned.
C17_Claim ==
    (pc = "matched" /\ DirectoryMode /\ ReadCompletely) =>
        /\ matched_files.ok
        /\ PairsOf(matched_files) = DirectoryPairs

\* C18: a template without <lang>, a file name with <lang> more than once,
\* a directory that cannot be read and an entry that cannot be read each give
\* an error, in both modes; an empty Ok result comes only from a directory
\* read completely.
C18_Claim ==
    pc = "matched" =>
        /\ (~FilenameMode /\ ~DirectoryMode) => ~matched_files.ok
        /\ ((FilenameMode \/ DirectoryMode) /\ ~ReadCompletely) => ~matched_files.ok
        /\ (matched_files.ok /\ matched_files.files = << >>) => ReadCompletely

\* The language codes that can be written with the words of the names.
CodePool ==
    { << w >> : w \in LowerWords }
        \cup { << w, "_", u >> : w \in LowerWords, u \in UpperWords }

\* The language codes a file name ends with, before its extension.
DetectedCodes(name) ==
    LET stem == file_stem(name) IN
    { c \in CodePool : \E sep \in {"_", "."} : EndsWith(stem, << sep >> \o c) }

\* The priority the specification gives to a file name.
Priority(name) ==
    LET codes == DetectedCodes(name) IN
    IF codes = {} THEN 100
    ELSE IF en \in codes THEN 90
    ELSE IF en_US \in codes THEN 80
    ELSE IF en_GB \in codes THEN 70
    ELSE 10

Members(list) == { list[n] : n \in DOMAIN list }

Orderings(list) ==
    { [n \in DOMAIN list |-> list[p[n]]] :
        p \in { q \in [DOMAIN list -> DOMAIN list] :
                  \A i, j \in DOMAIN list : q[i] = q[j] => i = j } }

app_ts == <<"app", ".", "ts">>
app_en_ts == <<"app", "_", "en", ".", "ts">>
app_en_US_ts == <<"app", "_", "en", "_", "US", ".", "ts">>
app_en_GB_ts == <<"app", "_", "en", "_", "GB", ".", "ts">>

\* C19: get_source_file_priority gives 100 to a name with no detected code,
\* 90 to en, 80 to en_US, 70 to en_GB and 10 to any other code;
\* select_best_source_file returns None only for an empty list and otherwise a
\* candidate of maximal priority, in whatever order the candidates come; so
\* {app.ts, app_en.ts, app_en_US.ts} selects app.ts and
\* {app_en_GB.ts, app_en_US.ts} selects app_en_US.ts.
C19_Theorem ==
    pc = "selected" =>
        /\ \A f \in Members(candidates) : get_source_file_priority(f) = Priority(f)
        /\ best_file.some <=> candidates # << >>
        /\ best_file.some =>
              /\ best_file.path \in Members(candidates)
              /\ \A f \in Members(candidates) : Priority(f) <= Priority(best_file.path)
        /\ \A l \in Orderings(candidates) :
              /\ select_best_source_file(l).some = best_file.some
              /\ Priority(select_best_source_file(l).path) = Priority(best_file.path)
        /\ Members(candidates) = {app_ts, app_en_ts, app_en_US_ts}
              => best_file = SomePath(app_ts)
        /\ Members(candidates) = {app_en_GB_ts, app_en_US_ts}
              => best_file = SomePath(app_en_US_ts)

C19_Witness ==
    /\ pc = "selected"
    /\ candidates = <<app_en_US_ts, app_ts, app_en_ts>>
    /\ best_file = SomePath(app_ts)

\* C20: within every pattern family built by identify_source_files no two
\* distinct candidates have the same priority, so the selected source file of
\* a family is determined by the set of its candidates.
C20_Claim ==
    pc = "identified" =>
        \A k \in DOMAIN pattern_candidates :
            \A i, j \in DOMAIN pattern_candidates[k] :
                i # j => get_source_file_priority(pattern_candidates[k][i])
                            # get_source_file_priority(pattern_candidates[k][j])

Elements(list) == { list[n] : n \in DOMAIN list }

\* A code as the specification writes it: xx or xx_YY.
CodeShaped(code) ==
    \/ Len(code) = 1 /\ code[1] \in LowerWords
    \/ Len(code) = 3 /\ code[1] \in LowerWords /\ code[2] = "_" /\ code[3] \in UpperWords

\* C21: find_language_codes_in_filename returns only codes taken from the
\* trailing _xx / _xx_YY or .xx / .xx_YY segment of the file stem, never a
\* string of the file-extension denylist (po, ts); a name that is only a
\* code and an extension, and a name without such a segment, yield no code.
C21_Claim ==
    pc = "codes" =>
        LET stem == SubSeq(name_given, 1, Len(name_given) - 2) IN
        /\ \A code \in Elements(codes_found) :
              /\ CodeShaped(code)
              /\ \E sep \in {"_", "."} : EndsWith(stem, << sep >> \o code)
              /\ ~is_file_extension(code)
        /\ Len(stem) = 1 => codes_found = << >>
        /\ (~\E code \in CodePool : \E sep \in {"_", "."} : EndsWith(stem, << sep >> \o code))
              => codes_found = << >>

\* The files identify_source_files took for source candidates.
SourceCandidates ==
    UNION { Elements(pattern_candidates[k]) : k \in DOMAIN pattern_candidates }

\* The file name ends, before its extension, with en, en_US or en_GB.
TrailingEnglish(path) ==
    DetectedCodes(file_name(path)) \cap {en, en_US, en_GB} # {}

\* A directory of the path is named by a language code that is not English.
UnderNonEnglishFolder(path) ==
    \E n \in 1..(Len(components(path)) - 1) :
        /\ CodeShaped(components(path)[n])
        /\ ~is_file_extension(components(path)[n])
        /\ components(path)[n] \notin {en, en_US, en_GB}

\* C22, first half: a file whose name carries en, en_US or en_GB as its
\* trailing language token is a source candidate.
C22_EnglishNames ==
    pc = "identified" =>
        \A f \in Elements(all_files) : TrailingEnglish(f) => f \in SourceCandidates

\* C22, second half: a file under a directory keyed by a non-English
\* language code is no source candidate unless its name has an English marker.
C22_NonEnglishFolders ==
    pc = "identified" =>
        \A f \in Elements(all_files) :
            UnderNonEnglishFolder(f) /\ f \in SourceCandidates
                => TrailingEnglish(f) \/ is_english_source_file(file_name(f))

\* C22: every .ts or .po file whose name carries an English-family code as
\* its trailing language token is classified as a source candidate by
\* is_likely_source_file, and a file under a directory keyed by a
\* non-English language code is never classified as one unless its own file
\* name carries an English marker.
C22_Claim == C22_EnglishNames /\ C22_NonEnglishFolders

LangTokens(text) == { n \in 1..Len(text) : text[n] = LANG }

\* <lang> replaced by a code, everywhere.
Expand(text, code) == Replace(text, << LANG >>, code, 1)

\* C23: generate_translation_expression returns a pattern with exactly one
\* <lang> token: an English marker of the file name is replaced by it, else
\* the first component that is an English code, else _<lang> is inserted
\* before the extension; replacing <lang> by the source's English code, or
\* removing the inserted _<lang>, gives back the source path.
C23_Claim ==
    pc = "expression" =>
        /\ Cardinality(LangTokens(translation_expression)) = 1
        /\ \/ \E code \in {en, en_US, en_GB} :
                 Expand(translation_expression, code) = source_given
           \/ /\ Replace(translation_expression, <<"_", LANG>>, << >>, 1) = source_given
              /\ EndsWith(translation_expression,
                          <<"_", LANG, ".">> \o extension(file_name(source_given)))

\* C24: when translate_ts_content or translate_po_content returns
\* DifferentContexts or DifferentMessages, the in-memory target document is
\* what it was before the call: no entry of any context has been filled.
C24_Claim ==
    (op = "propagate" /\ res.tag \in {"DifferentContexts", "DifferentMessages"})
        => tgt = pre

\* C24 for Gettext alone, where the counts are compared before the loop.
C24_Gettext ==
    (kind = "po" /\ op = "propagate"
       /\ res.tag \in {"DifferentContexts", "DifferentMessages"})
        => tgt = pre


\* The target language requested for the m-th loaded target.
RequestedLanguage(m) == argv.target_languages[m]

\* A document on disk that the invocation wrote.
Written(p) == disk[p] # disk0[p] /\ disk[p] \notin {NoFile, Garbage}

\* C25: every target document that reaches propagation carries the requested
\* target language, whatever language its file had; every document the command
\* wrote carries the language requested for its path; and the command never
\* ends on MissingLanguageCode or MismatchedI18nFileType.
C25_Theorem ==
    /\ pc \in {"load", "convert", "done"} =>
         \A m \in 1..Len(target_contents) :
            get_language(kind, target_contents[m].content) = RequestedLanguage(m)
    /\ pc \in {"convert", "done"} =>
         \A p \in DOMAIN disk :
            Written(p) =>
               \E m \in 1..Len(target_contents) :
                  /\ target_contents[m].path = p
                  /\ get_language(kind, disk[p]) = RequestedLanguage(m)
    /\ res.tag \notin {"MissingLanguageCode", "MismatchedI18nFileType"}

\* A finished run saved a target whose file carried a language that was not
\* the requested one.
C25_Witness ==
    /\ pc = "done" /\ res.tag = "Ok"
    /\ \E m \in 1..Len(target_contents) :
         LET p == target_contents[m].path IN
         /\ disk0[p] \notin {NoFile, Garbage}
         /\ get_language(kind, disk0[p]) \notin {None, "", RequestedLanguage(m)}
         /\ Written(p)
         /\ get_language(kind, disk[p]) = RequestedLanguage(m)


\* C26: once the targets of an invocation are loaded, their paths are
\* pairwise distinct and none is the path of the source file, and the source
\* file stays on disk what it was before the invocation.
C26_Claim ==
    /\ pc \in {"convert", "done"} =>
         /\ \A m, n \in 1..Len(target_contents) :
               target_contents[m].path = target_contents[n].path => m = n
         /\ \A m \in 1..Len(target_contents) :
               target_contents[m].path # argv.linguist_ts_file
    /\ disk[argv.linguist_ts_file] = disk0[argv.linguist_ts_file]

\* The same for a list of pairwise distinct target languages none of which is
\* the source language.
C26_DistinctFromSource ==
    (DistinctTargets /\ \A m \in 1..Len(argv.target_languages) :
                           argv.target_languages[m] # argv.source_language)
       => C26_Claim


\* The entries of the lookup table that resolve filter m of the yaml.
MatchingEntries(m) ==
    { n \in 1..Len(lookup_table) :
        /\ lookup_table[n].repository = github_repository
        /\ lookup_table[n].resource = tx_yaml.filters[m].source }

\* The filters up to m that no entry of the lookup table resolves.
UnresolvedUpTo(m) == { n \in 1..m : MatchingEntries(n) = {} }

\* C28: to_tx_config yields one resource section per filter, in filter order,
\* with the filter's source, source language, format and target pattern; a
\* filter the lookup table resolves gets the resource id of the first entry
\* that resolves it; the k-th unresolved filter gets the slug unknown-res-k,
\* so the slugs of unresolved filters are pairwise distinct.
C28_Theorem ==
    pc = "config" =>
       LET sections == tx_config.resource_sections
           filters == tx_yaml.filters
       IN /\ Len(sections) = Len(filters)
          /\ \A m \in 1..Len(filters) :
                /\ sections[m].source_file = filters[m].source
                /\ sections[m].source_lang = filters[m].source_lang
                /\ sections[m].type_attr = filters[m].format
                /\ sections[m].file_filter = filters[m].target_pattern
                /\ MatchingEntries(m) # {} =>
                     \E n \in MatchingEntries(m) :
                        /\ \A other \in MatchingEntries(m) : n <= other
                        /\ sections[m].resource_full_slug =
                              lookup_table[n].transifex_resource_id
                /\ MatchingEntries(m) = {} =>
                     sections[m].resource_full_slug =
                        <<"o:unknown-org:p:unknown-proj:r:unknown-res",
                          Cardinality(UnresolvedUpTo(m))>>
          /\ \A m, n \in UnresolvedUpTo(Len(filters)) :
                sections[m].resource_full_slug = sections[n].resource_full_slug
                   => m = n

\* Three filters were converted: the second is resolved by the second of two
\* entries for it, the first and the third are unresolved and get the slugs
\* 1 and 2.
C28_Witness ==
    /\ pc = "config"
    /\ Len(tx_yaml.filters) = 3
    /\ UnresolvedUpTo(3) = {1, 3}
    /\ tx_config.resource_sections[3].resource_full_slug =
          <<"o:unknown-org:p:unknown-proj:r:unknown-res", 2>>
    /\ Cardinality(MatchingEntries(2)) = 2
    /\ lookup_table[1].transifex_resource_id # lookup_table[2].transifex_resource_id
    /\ tx_config.resource_sections[2].resource_full_slug =
          lookup_table[1].transifex_resource_id


\* The file a config-generating command is to produce.
Destination ==
    CASE command.name = "gentxcfg" /\ command.format = "yaml" -> ".tx/transifex.yaml"
      [] command.name = "gentxcfg" /\ command.format = "txconfig" -> ".tx/config"
      [] command.name \in {"yaml2txconfig", "monotxconfig"} -> ".tx/config"
      [] command.name = "txconfig2yaml" -> ".tx/transifex.yaml"

\* The command got as far as generating a content.
Generated ==
    /\ pc = "done"
    /\ res.tag = "Ok"
    /\ command.name = "gentxcfg" =>
          identify_source_files(command.scanned).source_files # << >>

\* C27: a config-generating command never changes a file that existed before
\* it ran; when its destination existed it prints the generated content and
\* leaves the tree as it was, and it writes the destination, printing
\* nothing, only when the destination did not exist.
C27_Theorem ==
    pc = "done" =>
       /\ \A p \in DOMAIN tree : tree0[p] # NoFile => tree[p] = tree0[p]
       /\ (Generated /\ tree0[Destination] # NoFile) =>
             /\ tree = tree0
             /\ Len(printed) = 1
             /\ printed[1].text =
                   (IF Destination = ".tx/config" THEN "ini" ELSE "yaml")
       /\ (Generated /\ tree0[Destination] = NoFile) =>
             /\ tree[Destination] \notin {NoFile, Dir, Garbage}
             /\ printed = << >>
       /\ ~Generated => (tree = tree0 /\ printed = << >>)

\* gentxcfg found the .tx/config of an earlier run: the content it generated
\* is another one, it is printed and the file is left as it was.
C27_Witness ==
    /\ Generated
    /\ command.name = "gentxcfg"
    /\ tree0[".tx/config"] \notin {NoFile, Garbage}
    /\ Len(printed) = 1
    /\ printed[1] # tree0[".tx/config"]
    /\ printed[1].text = "ini"
    /\ tree[".tx/config"] = tree0[".tx/config"]


\* Forward expansion: every <lang> of the template replaced by the code.
ExpandPattern(template, code) ==
    [ n \in 1..Len(template) |-> Replace(template[n], << LANG >>, code, 1) ]

\* C29: every pair (code, path) that match_target_files returns has the path
\* that forward expansion of the pattern gives for the code, and the codes of
\* one result are pairwise distinct.
C29_Theorem ==
    (pc = "matched" /\ matched_files.ok) =>
       LET pairs == matched_files.files IN
       /\ \A n \in 1..Len(pairs) :
             pairs[n][2] = ExpandPattern(target_pattern, pairs[n][1])
       /\ \A m, n \in 1..Len(pairs) : pairs[m][1] = pairs[n][1] => m = n

\* Two files of the scanned directory matched a pattern whose file name has
\* text before and after <lang>.
C29_Witness ==
    /\ pc = "matched" /\ matched_files.ok
    /\ Len(matched_files.files) = 2
    /\ LET name == target_pattern[Len(target_pattern)] IN
       /\ Len(name) > 2
       /\ name[1] # LANG
       /\ name[Len(name)] # LANG

\* Two folders of the scanned directory hold the file of a pattern with a
\* <lang> directory.
C29_WitnessFolders ==
    /\ pc = "matched" /\ matched_files.ok
    /\ Len(matched_files.files) = 2
    /\ target_pattern[2] = << LANG >>


\* The pattern key identify_source_files files a path under.
PatternKey(path) == get_translation_pattern_with_inference(path, all_files)

\* The source candidates among the discovered files and their families.
LikelySources == { f \in Elements(all_files) : is_likely_source_file(f, all_files) }

Family(path) == { f \in LikelySources : PatternKey(f) = PatternKey(path) }

\* The place of a file in the discovery order.
Discovered(path) == CHOOSE n \in DOMAIN all_files : all_files[n] = path

\* A directory of the path is named by a language code.
InLanguageFolder(path) ==
    \E n \in 1..(Len(components(path)) - 1) :
        CodeShaped(components(path)[n]) /\ ~is_file_extension(components(path)[n])

\* Neither the name of the file nor a directory of its path carries a
\* language code.
NoCodeInPath(path) ==
    DetectedCodes(file_name(path)) = {} /\ ~InLanguageFolder(path)

\* The discovered files of the same directory and extension whose stem is the
\* stem of the file, a separator and a language code.
Siblings(path) ==
    { s \in Elements(all_files) :
        /\ parent(s) = parent(path)
        /\ extension(file_name(s)) = extension(file_name(path))
        /\ \E sep \in {"_", "."}, code \in CodePool :
              file_stem(file_name(s)) = file_stem(file_name(path)) \o << sep >> \o code }

\* C30, the list: sorted by path, one member of each family of source
\* candidates, the first in discovery order of those of highest priority.
C30_OnePerFamily ==
    pc = "identified" =>
       /\ \A i, j \in DOMAIN source_files :
             i < j => PathLess(source_files[i], source_files[j])
       /\ Elements(source_files) \subseteq LikelySources
       /\ \A f \in LikelySources :
             \E i \in DOMAIN source_files :
                /\ source_files[i] \in Family(f)
                /\ \A j \in DOMAIN source_files :
                      source_files[j] \in Family(f) => j = i
       /\ \A i \in DOMAIN source_files :
             \A f \in Family(source_files[i]) :
                \/ Priority(file_name(f)) < Priority(file_name(source_files[i]))
                \/ /\ Priority(file_name(f)) = Priority(file_name(source_files[i]))
                   /\ Discovered(source_files[i]) <= Discovered(f)

\* C30, the families: a file without a code has the key of one of its
\* siblings that carry a code.
C30_SiblingFamily ==
    pc = "identified" =>
       \A f \in Elements(all_files) :
          (NoCodeInPath(f) /\ Siblings(f) # {}) =>
             \E s \in Siblings(f) : PatternKey(f) = PatternKey(s)

\* C30: identify_source_files returns a list sorted by path with exactly one
\* file of each pattern family of source candidates, among the candidates of
\* highest priority the first in discovery order, and a file without a code
\* is in the family of a sibling of the same directory and extension whose
\* name is its stem plus a language code.
C30_Claim == C30_OnePerFamily /\ C30_SiblingFamily

====
